---- MODULE Spec2Model ----
(***************************************************************************)
(* A model of the storage node of rpmoore/kv-store: the partition engine   *)
(* (storage/src/partition.rs), the partition lookup and its on-disk        *)
(* catalog (storage/src/lookup.rs) and the RPC facade                      *)
(* (storage/src/main.rs).                                                  *)
(*                                                                         *)
(* Representation.  TLC's integers are 32-bit and signed, so a u32 is a    *)
(* pair <<hi, lo>> of 16-bit halves and a u64 is eight bytes, least        *)
(* significant first.  A byte string (a key, a value) is a sequence of     *)
(* bytes.  A text (a namespace id on the wire, a catalog key) is a         *)
(* sequence of tokens: the token u > 0 is the hyphenated form of the UUID  *)
(* u, the token 0 is the separator "::", a negative token is any other     *)
(* character run.                                                          *)
(***************************************************************************)
EXTENDS Integers, Sequences, FiniteSets, TLC

(***************************************************************************)
(* Bounds of the model.                                                    *)
(***************************************************************************)
NumKeys == 2        \* keys are the one-byte strings "a", "b", ...
NumValues == 2      \* values are the one-byte strings "x", "y", ...
NumUuids == 2       \* tenant and namespace ids are drawn from 1..NumUuids
MaxParts == 2       \* partitions ever created by add_partition
NumThreads == 2     \* concurrent callers of add_partition
MaxRestarts == 1    \* process restarts (crash or clean)
NumU32 == 2         \* sample u32 values for a caller's crc and version
NumRpcValues == 1   \* values sent through the RPC facade
NumScanKeys == 4    \* one-byte keys "a".."d" of the engines that are listed
MaxLimit == 3       \* largest limit a caller of list_keys gives
MaxHeaderLen == 3   \* elements of an Authorization value
NumHalves == 6      \* sample 16-bit halves of the crc and version of a header
NumJumpKeys == 1000 \* keys "k1", "k2", ... routed before and after an append
MaxJumpLen == 3     \* longest sequence a partition is appended to

Keys == {<<96 + i>> : i \in 1..NumKeys}
Values == {<<119 + i>> : i \in 1..NumValues}
Uuids == 1..NumUuids
Threads == 1..NumThreads
PartIds == 1..MaxParts
\* Sample u32 values, in the <<hi, lo>> form: 0x00000001, 0xCA80CD9A, ...
U32Sample(i) == <<((i - 1) * 51840) % 65536, (1 + (i - 1) * 52633) % 65536>>
U32Samples == {U32Sample(i) : i \in 1..NumU32}
IoOutcomes == {"ok", "err"}

(***************************************************************************)
(* Bit arithmetic on bytes and 16-bit halves.                              *)
(***************************************************************************)
RECURSIVE Xor(_, _)
Xor(a, b) ==
    IF a = 0 THEN b
    ELSE IF b = 0 THEN a
    ELSE ((a + b) % 2) + 2 * Xor(a \div 2, b \div 2)

\* u32::to_be_bytes and u32::from_be_bytes on the <<hi, lo>> form.
ToLeBytes(w) == <<w[2] % 256, w[2] \div 256, w[1] % 256, w[1] \div 256>>
ToBeBytes(w) == <<w[1] \div 256, w[1] % 256, w[2] \div 256, w[2] % 256>>
FromBeBytes(bs) == <<bs[1] * 256 + bs[2], bs[3] * 256 + bs[4]>>

(***************************************************************************)
(* CRC-32 (IEEE, reflected polynomial 0xEDB88320) as crc32fast::Hasher     *)
(* computes it: new, update, finalize.  The state is the running register. *)
(***************************************************************************)
Crc32Shift(r) ==
    LET lsb == r[2] % 2
        s == <<r[1] \div 2, (r[1] % 2) * 32768 + (r[2] \div 2)>>
    IN  IF lsb = 1 THEN <<Xor(s[1], 60856), Xor(s[2], 33568)>> ELSE s

RECURSIVE Crc32Bits(_, _)
Crc32Bits(r, n) == IF n = 0 THEN r ELSE Crc32Bits(Crc32Shift(r), n - 1)

Crc32New == <<65535, 65535>>

RECURSIVE Crc32Update(_, _)
Crc32Update(r, bytes) ==
    IF bytes = <<>> THEN r
    ELSE Crc32Update(Crc32Bits(<<r[1], Xor(r[2], Head(bytes))>>, 8), Tail(bytes))

Crc32Finalize(r) == <<65535 - r[1], 65535 - r[2]>>

(***************************************************************************)
(* CRC-64 (ECMA-182 reflected, polynomial 0xC96C5795D7870F42) as           *)
(* crc64fast::Digest computes it, behind common::crc64hasher::Crc64Hasher. *)
(***************************************************************************)
Crc64Poly == <<66, 15, 135, 215, 149, 87, 108, 201>>

U64Shr1(w) ==
    << (w[1] \div 2) + (w[2] % 2) * 128, (w[2] \div 2) + (w[3] % 2) * 128,
       (w[3] \div 2) + (w[4] % 2) * 128, (w[4] \div 2) + (w[5] % 2) * 128,
       (w[5] \div 2) + (w[6] % 2) * 128, (w[6] \div 2) + (w[7] % 2) * 128,
       (w[7] \div 2) + (w[8] % 2) * 128, w[8] \div 2 >>
U64Shr8(w) == <<w[2], w[3], w[4], w[5], w[6], w[7], w[8], 0>>
U64Xor(a, b) ==
    << Xor(a[1], b[1]), Xor(a[2], b[2]), Xor(a[3], b[3]), Xor(a[4], b[4]),
       Xor(a[5], b[5]), Xor(a[6], b[6]), Xor(a[7], b[7]), Xor(a[8], b[8]) >>
U64Not(a) ==
    << 255 - a[1], 255 - a[2], 255 - a[3], 255 - a[4],
       255 - a[5], 255 - a[6], 255 - a[7], 255 - a[8] >>

RECURSIVE Crc64Bits(_, _)
Crc64Bits(w, n) ==
    IF n = 0 THEN w
    ELSE Crc64Bits(IF w[1] % 2 = 1 THEN U64Xor(U64Shr1(w), Crc64Poly) ELSE U64Shr1(w), n - 1)

Crc64Table == [b \in 0..255 |-> Crc64Bits(<<b, 0, 0, 0, 0, 0, 0, 0>>, 8)]

\* Crc64Hasher::new: a fresh digest.  The state is the running register.
Crc64HasherNew == <<255, 255, 255, 255, 255, 255, 255, 255>>

\* Hasher::write for Crc64Hasher.
RECURSIVE Crc64Write(_, _)
Crc64Write(w, bytes) ==
    IF bytes = <<>> THEN w
    ELSE Crc64Write(U64Xor(Crc64Table[Xor(w[1], Head(bytes))], U64Shr8(w)), Tail(bytes))

\* Hasher::finish for Crc64Hasher.
Crc64Finish(w) == U64Not(w)

(***************************************************************************)
(* Hash of a partition::Key (partition.rs:53, derive(Hash) over the byte   *)
(* slice): the length as a usize in native byte order, then the bytes.     *)
(***************************************************************************)
LenPrefix(bytes) == <<Len(bytes) % 256, (Len(bytes) \div 256) % 256, 0, 0, 0, 0, 0, 0>>
HashKey(hs, key) == Crc64Write(Crc64Write(hs, LenPrefix(key)), key)

(***************************************************************************)
(* jumphash::CustomJumpHasher::slot, the jump consistent hash of Lamping   *)
(* and Veach:                                                              *)
(*   let mut hs = self.hs.clone(); key.hash(&mut hs); let mut h = finish;  *)
(*   (b, j) = (-1, 0);                                                     *)
(*   while j < slots { b = j; h = h * 2862933555777941757 + 1;             *)
(*                     j = ((b + 1) as f64 * (2^31 / ((h >> 33) + 1))) }   *)
(*   b as u32                                                              *)
(***************************************************************************)
JumpMul == <<253, 176, 176, 135, 230, 46, 187, 39>>

RECURSIVE JumpCol(_, _, _)
JumpCol(h, k, i) == IF i > k THEN 0 ELSE h[i] * JumpMul[k + 1 - i] + JumpCol(h, k, i + 1)

RECURSIVE JumpMulAdd(_, _, _)
JumpMulAdd(h, k, carry) ==
    IF k > 8 THEN <<>>
    ELSE LET cur == JumpCol(h, k, 1) + carry
         IN  <<cur % 256>> \o JumpMulAdd(h, k + 1, cur \div 256)

\* h.wrapping_mul(2862933555777941757).wrapping_add(1)
JumpStep(h) == JumpMulAdd(h, 1, 1)

\* h >> 33, a 31-bit number
U64Shr33(h) == (h[5] \div 2) + h[6] * 128 + h[7] * 32768 + h[8] * 8388608

\* m * (d + 1) <= b1 * 2^31, in 16-bit halves
JumpReaches(b1, m, d) ==
    LET low == m * (d % 65536) + m
        high == m * (d \div 65536) + (low \div 65536)
    IN  \/ high < b1 * 32768
        \/ high = b1 * 32768 /\ low % 65536 = 0

\* The next j, cut at n: every j >= n ends the loop alike.  The quotient is
\* taken in f64; its truncation is the integer quotient for these operands.
JumpNextJ(b1, d, n) ==
    CHOOSE m \in 0..n : /\ JumpReaches(b1, m, d)
                        /\ \A m2 \in (m + 1)..n : ~JumpReaches(b1, m2, d)

RECURSIVE JumpLoop(_, _, _, _)
JumpLoop(h, b, j, n) ==
    IF j < n
    THEN LET h2 == JumpStep(h)
         IN  JumpLoop(h2, j, JumpNextJ(j + 1, U64Shr33(h2), n), n)
    ELSE b

\* b as u32, in the <<hi, lo>> form: -1 becomes u32::MAX
AsU32(b) == IF b < 0 THEN <<65535, 65536 + b>> ELSE <<b \div 65536, b % 65536>>

\* A slot that is the hash modulo the number of slots.
SlotOfModulo(hs, key, slots_count) ==
    IF slots_count = 0 THEN AsU32(-1)
    ELSE AsU32(Crc64Finish(HashKey(hs, key))[1] % slots_count)

SlotOf(hs, key, slots_count) ==
    AsU32(JumpLoop(Crc64Finish(HashKey(hs, key)), -1, 0, slots_count))

\* The slots of the model's keys under a fresh hasher, computed once.
SlotMemo == [key \in Keys |-> [n \in 0..(MaxParts + 1) |-> SlotOf(Crc64HasherNew, key, n)]]

Slot(hs, key, slots_count) ==
    IF hs = Crc64HasherNew /\ key \in Keys /\ slots_count \in 0..(MaxParts + 1)
    THEN SlotMemo[key][slots_count]
    ELSE SlotOf(hs, key, slots_count)

VARIABLES
    db,         \* db[id]: the engine of partition id: column families default, metadata
    call,       \* call[t]: the partition call thread t is inside of
    lastPut,    \* history: per partition and key, the last write that succeeded
    resp,       \* the last completed operation and its result
    crashes,    \* history: process crashes and restarts so far
    lookup,     \* PartitionLookup.partitions: (Uuid, Uuid) -> sequence of partitions
    hasher,     \* PartitionLookup.hasher: the state of its Crc64Hasher
    disk,       \* partitions.json
    node,       \* "up" once load succeeded, "down" when load failed at startup
    th,         \* th[t]: where thread t is inside add_partition
    nextId,     \* the id the next partition created gets
    published,  \* history: partitions whose add_partition_internal completed
    dirty,      \* history: "overlap" once an add_partition began beside another,
                \* "failed" once one returned an error
    pinned,     \* history: one earlier routing, kept to compare later ones with
    wire,       \* the request being served: its stage and its Authorization
                \* entry
    gw          \* the gateway: its sqlite tables and its last HTTP exchange

vars == <<db, call, lastPut, resp, crashes, lookup, hasher, disk, node, th, nextId,
          published, dirty, pinned, wire, gw>>
partVars == <<db, call, lastPut>>
lookVars == <<lookup, hasher, disk, node, th, nextId, published, dirty, pinned>>

(***************************************************************************)
(* The engine: two column families, each a map from keys to byte strings,  *)
(* and WriteBatch, applied as a whole by DB::write.                        *)
(***************************************************************************)
EmptyCf == [k \in {} |-> <<>>]
EmptyDb == [default |-> EmptyCf, metadata |-> EmptyCf]

CfPut(cf, k, v) == [x \in (DOMAIN cf) \cup {k} |-> IF x = k THEN v ELSE cf[x]]
CfDelete(cf, k) == [x \in (DOMAIN cf) \ {k} |-> cf[x]]

BatchOp(d, o) ==
    IF o.op = "put"
    THEN [d EXCEPT ![o.cf] = CfPut(d[o.cf], o.key, o.val)]
    ELSE [d EXCEPT ![o.cf] = CfDelete(d[o.cf], o.key)]

RECURSIVE BatchApply(_, _)
BatchApply(d, batch) ==
    IF batch = <<>> THEN d ELSE BatchApply(BatchOp(d, Head(batch)), Tail(batch))

\* A write that makes only the first operation of its batch visible.
DbWriteTorn(d, batch) == IF batch = <<>> THEN d ELSE BatchOp(d, Head(batch))

\* DB::write(batch): every operation of the batch, or (on an error) none.
DbWrite(d, batch) == BatchApply(d, batch)

(***************************************************************************)
(* partition.rs: PutValue::metadata_as_bytes and the partition operations. *)
(***************************************************************************)
\* The header with the version first.
MetadataAsBytesSwapped(pv) == ToBeBytes(pv.version) \o ToBeBytes(pv.crc)

MetadataAsBytes(pv) == ToBeBytes(pv.crc) \o ToBeBytes(pv.version)

\* value.split_at(4) and the two u32::from_be_bytes of get (lines 197-201)
DecodeMetadata(bs) ==
    [crc |-> FromBeBytes(SubSeq(bs, 1, 4)), version |-> FromBeBytes(SubSeq(bs, 5, Len(bs)))]

PutBatch(key, pv) ==
    << [op |-> "put", cf |-> "metadata", key |-> key, val |-> MetadataAsBytes(pv)],
       [op |-> "put", cf |-> "default", key |-> key, val |-> pv.value] >>

\* A batch that deletes the metadata row and leaves the value.
DeleteBatchMetadataOnly(key) ==
    << [op |-> "delete", cf |-> "metadata", key |-> key, val |-> <<>>] >>

DeleteBatch(key) ==
    << [op |-> "delete", cf |-> "metadata", key |-> key, val |-> <<>>],
       [op |-> "delete", cf |-> "default", key |-> key, val |-> <<>>] >>

\* Partition::get on engine state d; io says which of the two reads fails.
PartitionGet(d, key, io) ==
    IF io = "meta_err" THEN [kind |-> "RocksDBError"]
    ELSE IF key \notin DOMAIN d.metadata
    THEN [kind |-> "General", msg |-> "could not find value"]
    ELSE IF Len(d.metadata[key]) # 8 THEN [kind |-> "panic"]
    ELSE IF io = "value_err" THEN [kind |-> "RocksDBError"]
    ELSE IF key \notin DOMAIN d.default
    THEN [kind |-> "General", msg |-> "could not find value"]
    ELSE [kind |-> "Ok",
          crc |-> DecodeMetadata(d.metadata[key]).crc,
          version |-> DecodeMetadata(d.metadata[key]).version,
          value |-> d.default[key]]

\* A put that writes only over a smaller version.
PartitionPutDbCas(d, key, pv, io) ==
    IF io = "ok" /\ (key \notin DOMAIN d.metadata
                     \/ LET old == DecodeMetadata(d.metadata[key]).version
                        IN  old[1] < pv.version[1]
                            \/ (old[1] = pv.version[1] /\ old[2] < pv.version[2]))
    THEN DbWrite(d, PutBatch(key, pv)) ELSE d

\* A put whose batch is applied also when the write reports an error.
PartitionPutDbDespiteError(d, key, pv, io) == DbWrite(d, PutBatch(key, pv))

\* Partition::put: the engine after the call, and the call's result.
PartitionPutDb(d, key, pv, io) == IF io = "ok" THEN DbWrite(d, PutBatch(key, pv)) ELSE d
PartitionPutResult(pv, io) ==
    IF io = "ok" THEN [kind |-> "Ok", crc |-> pv.crc, version |-> pv.version]
    ELSE [kind |-> "ErrorKind"]

\* Partition::exists reads the default column family.
PartitionExists(d, key, io) ==
    IF io = "ok" THEN [kind |-> "Ok", found |-> key \in DOMAIN d.default]
    ELSE [kind |-> "RocksDBError"]

\* Partition::delete
PartitionDeleteDb(d, key, io) == IF io = "ok" THEN DbWrite(d, DeleteBatch(key)) ELSE d
PartitionDeleteResult(io) == IF io = "ok" THEN [kind |-> "Ok"] ELSE [kind |-> "RocksDBError"]

\* Lexicographic byte order, the order of the engine's default comparator.
RECURSIVE BytesLess(_, _)
BytesLess(a, b) ==
    IF b = <<>> THEN FALSE
    ELSE IF a = <<>> THEN TRUE
    ELSE IF a[1] # b[1] THEN a[1] < b[1]
    ELSE BytesLess(Tail(a), Tail(b))

\* The keys of a set in the order an iterator walks them.
RECURSIVE SortedKeys(_)
SortedKeys(S) ==
    IF S = {} THEN <<>>
    ELSE LET k == CHOOSE k \in S : \A x \in S : x = k \/ BytesLess(k, x)
         IN  <<k>> \o SortedKeys(S \ {k})

\* An iterator that starts after start_at instead of at it.
SeekAfter(keys, start_at) == {k \in keys : BytesLess(start_at, k)}

\* IteratorMode::From(start_at, Forward): the keys at or after start_at
SeekFrom(keys, start_at) == {k \in keys : ~BytesLess(k, start_at)}

\* opts.limit.unwrap_or(50)
DefaultListLimit == 50

\* ListOptions::default()
ListOptionsDefault == [limit |-> [some |-> FALSE], start_at |-> [some |-> FALSE]]

\* Partition::list_keys: the first limit keys of the metadata column family
\* from start_at on, each with the crc and version of its row.
PartitionListKeys(d, opts, io) ==
    LET from == IF opts.start_at.some THEN SeekFrom(DOMAIN d.metadata, opts.start_at.val)
                ELSE DOMAIN d.metadata
        walk == SortedKeys(from)
        limit == IF opts.limit.some THEN opts.limit.val ELSE DefaultListLimit
        n == IF Len(walk) < limit THEN Len(walk) ELSE limit
    IN  IF limit = 0 THEN [kind |-> "Ok", keys |-> <<>>]
        ELSE IF io # "ok" THEN [kind |-> "RocksDBError"]
        ELSE IF \E i \in 1..n : Len(d.metadata[walk[i]]) # 8 THEN [kind |-> "panic"]
        ELSE [kind |-> "Ok",
              keys |-> [i \in 1..n |->
                          [key |-> walk[i],
                           crc |-> DecodeMetadata(d.metadata[walk[i]]).crc,
                           version |-> DecodeMetadata(d.metadata[walk[i]]).version]]]

(***************************************************************************)
(* Calls into one partition.  A put and a delete build their batch and     *)
(* then hand it to the engine; the process may crash in between.           *)
(***************************************************************************)
NoPutValue == [crc |-> <<0, 0>>, version |-> <<0, 0>>, value |-> <<>>]
NoView == [db |-> EmptyDb, seen |-> [kind |-> "none"]]
Idle == [pc |-> "idle", part |-> 0, key |-> <<>>, pv |-> NoPutValue, view |-> NoView]
NoWrite == [kind |-> "none"]
NoResp == [op |-> "none"]

PartPutBegin(t, p, key, pv) ==
    /\ call[t].pc = "idle"
    /\ call' = [call EXCEPT ![t] = [pc |-> "put", part |-> p, key |-> key, pv |-> pv,
                                      view |-> NoView]]
    /\ UNCHANGED <<db, lastPut, resp, crashes, lookVars, wire, gw>>

PartPutWrite(t, io) ==
    /\ call[t].pc = "put"
    /\ LET c == call[t]
       IN  /\ db' = [db EXCEPT ![c.part] = PartitionPutDb(db[c.part], c.key, c.pv, io)]
           /\ lastPut' = IF io = "ok"
                         THEN [lastPut EXCEPT ![c.part][c.key] = [kind |-> "put", pv |-> c.pv]]
                         ELSE lastPut
           /\ resp' = [op |-> "put", key |-> c.key, pv |-> c.pv,
                       res |-> PartitionPutResult(c.pv, io), before |-> lastPut[c.part][c.key]]
    /\ call' = [call EXCEPT ![t] = Idle]
    /\ UNCHANGED <<crashes, lookVars, wire, gw>>

PartDeleteBegin(t, p, key) ==
    /\ call[t].pc = "idle"
    /\ call' = [call EXCEPT ![t] = [pc |-> "delete", part |-> p, key |-> key, pv |-> NoPutValue,
                                      view |-> NoView]]
    /\ UNCHANGED <<db, lastPut, resp, crashes, lookVars, wire, gw>>

PartDeleteWrite(t, io) ==
    /\ call[t].pc = "delete"
    /\ LET c == call[t]
       IN  /\ db' = [db EXCEPT ![c.part] = PartitionDeleteDb(db[c.part], c.key, io)]
           /\ lastPut' = IF io = "ok"
                         THEN [lastPut EXCEPT ![c.part][c.key] = [kind |-> "delete"]]
                         ELSE lastPut
           /\ resp' = [op |-> "delete", key |-> c.key, res |-> PartitionDeleteResult(io),
                       before |-> lastPut[c.part][c.key].kind]
    /\ call' = [call EXCEPT ![t] = Idle]
    /\ UNCHANGED <<crashes, lookVars, wire, gw>>

\* Partition::get; the response keeps what the history says of the key.
PartGet(t, p, key, io) ==
    /\ call[t].pc = "idle"
    /\ resp' = [op |-> "get", key |-> key,
                res |-> PartitionGet(db[p], key, io), last |-> lastPut[p][key]]
    /\ UNCHANGED <<db, call, lastPut, crashes, lookVars, wire, gw>>

\* What multi_get_cf pins when it starts: the engine as of one sequence
\* number, here cut down to the rows of the key it is asked for.
Snapshot(d, key) ==
    [default |-> [k \in DOMAIN d.default \cap {key} |-> d.default[k]],
     metadata |-> [k \in DOMAIN d.metadata \cap {key} |-> d.metadata[k]]]

\* A multi-get that reads the default column family as it is when the read
\* happens, not as of the snapshot.
MultiGetCfTorn(snapshot, current, key) ==
    [default |-> Snapshot(current, key).default, metadata |-> snapshot.metadata]

\* multi_get_cf: both column families are read as of the snapshot
MultiGetCf(snapshot, current, key) == snapshot

\* Partition::get begins: multi_get_cf pins its snapshot; the call keeps
\* what the history said of the key at that moment.
PartGetBegin(t, p, key) ==
    /\ call[t].pc = "idle"
    /\ call' = [call EXCEPT ![t] = [pc |-> "get", part |-> p, key |-> key, pv |-> NoPutValue,
                                    view |-> [db |-> Snapshot(db[p], key),
                                              seen |-> lastPut[p][key]]]]
    /\ UNCHANGED <<db, lastPut, resp, crashes, lookVars, wire, gw>>

\* Partition::get reads the two rows and returns
PartGetRead(t, io) ==
    /\ call[t].pc = "get"
    /\ LET c == call[t]
       IN  resp' = [op |-> "multi_get", key |-> c.key,
                    res |-> PartitionGet(MultiGetCf(c.view.db, db[c.part], c.key), c.key, io),
                    seen |-> c.view.seen, last |-> lastPut[c.part][c.key]]
    /\ call' = [call EXCEPT ![t] = Idle]
    /\ UNCHANGED <<db, lastPut, crashes, lookVars, wire, gw>>

PartExists(t, p, key, io) ==
    /\ call[t].pc = "idle"
    /\ resp' = [op |-> "exists", key |-> key,
                res |-> PartitionExists(db[p], key, io),
                meta |-> key \in DOMAIN db[p].metadata]
    /\ UNCHANGED <<db, call, lastPut, crashes, lookVars, wire, gw>>

\* Partition::list_keys
PartListKeys(t, p, opts, io) ==
    /\ call[t].pc = "idle"
    /\ resp' = [op |-> "list_keys", opts |-> opts, res |-> PartitionListKeys(db[p], opts, io)]
    /\ UNCHANGED <<db, call, lastPut, crashes, lookVars, wire, gw>>

\* The process dies: the calls in flight are gone, the engines keep what
\* their completed batches wrote.
PartCrash ==
    /\ crashes < MaxRestarts
    /\ crashes' = crashes + 1
    /\ call' = [t \in Threads |-> Idle]
    /\ resp' = [op |-> "crash", cut |-> {call[t].pc : t \in Threads} \ {"idle"}]
    /\ UNCHANGED <<db, lastPut, lookVars, wire, gw>>

(***************************************************************************)
(* lookup.rs: the catalog.  A Partition is its three ids (its engine is    *)
(* db[id]); the lookup's map is a function from (Uuid, Uuid) keys to       *)
(* sequences of partitions.  partitions.json is a sequence of chunks, each *)
(* written by one write call: the opening, one chunk per map entry, the    *)
(* closing.  A chunk of zeros is what a write past the end leaves behind.  *)
(***************************************************************************)
Partition(id, namespace_id, tenant_id) ==
    [id |-> id, namespace_id |-> namespace_id, tenant_id |-> tenant_id]

EmptyMap == [k \in {} |-> <<>>]
MapInsert(m, k, v) == [x \in (DOMAIN m) \cup {k} |-> IF x = k THEN v ELSE m[x]]

\* Uuid's Display, and Uuid::parse_str
UuidText(u) == <<u>>
ParseUuid(text) ==
    IF Len(text) = 1 /\ text[1] > 0 THEN [ok |-> TRUE, uuid |-> text[1]] ELSE [ok |-> FALSE]

\* From<&(Uuid, Uuid)> for PersistedID with its fields exchanged.
ToPersistedIDSwapped(value) == [namespace_id |-> value[2], tenant_id |-> value[1]]

\* From<&(Uuid, Uuid)> for PersistedID
ToPersistedID(value) == [namespace_id |-> value[1], tenant_id |-> value[2]]

\* A conversion back that reads the fields by their names.
FromPersistedIDByName(value) == <<value.tenant_id, value.namespace_id>>

\* From<&PersistedID> for (Uuid, Uuid)
FromPersistedID(value) == <<value.namespace_id, value.tenant_id>>

\* Serialize for PersistedID: format!("{}::{}", namespace_id, tenant_id)
SerializePersistedID(pid) == UuidText(pid.namespace_id) \o <<0>> \o UuidText(pid.tenant_id)

\* str::split_once("::"): the text before and after the first separator
SplitOnce(text) ==
    IF \E i \in 1..Len(text) : text[i] = 0
    THEN LET i == CHOOSE i \in 1..Len(text) : text[i] = 0 /\ \A j \in 1..(i - 1) : text[j] # 0
         IN  [ok |-> TRUE, left |-> SubSeq(text, 1, i - 1), right |-> SubSeq(text, i + 1, Len(text))]
    ELSE [ok |-> FALSE]

\* PersistedIDVisitor::visit_str
VisitStr(v) ==
    LET sp == SplitOnce(v)
    IN  IF ~sp.ok THEN [ok |-> FALSE]
        ELSE IF ~ParseUuid(sp.left).ok \/ ~ParseUuid(sp.right).ok THEN [ok |-> FALSE]
        ELSE [ok |-> TRUE,
              id |-> [namespace_id |-> ParseUuid(sp.left).uuid,
                      tenant_id |-> ParseUuid(sp.right).uuid]]

\* From<&Partition> for PersistedPartition, and PersistedPartition::to_partition
ToPersistedPartition(value) ==
    [namespace_id |-> value.namespace_id, tenant_id |-> value.tenant_id, id |-> value.id]
ToPartition(pp) == Partition(pp.id, pp.namespace_id, pp.tenant_id)

\* value.iter().map(..).collect() over a sequence of partitions
ToPersistedPartitions(sq) == [i \in 1..Len(sq) |-> ToPersistedPartition(sq[i])]
ToPartitions(sq) == [i \in 1..Len(sq) |-> ToPartition(sq[i])]
Ids(sq) == [i \in 1..Len(sq) |-> sq[i].id]

\* From<&PartitionLookup> for PersistedState: a map from PersistedID
ToPersistedState(m) ==
    [pid \in {ToPersistedID(k) : k \in DOMAIN m} |->
        LET k == CHOOSE k \in DOMAIN m : ToPersistedID(k) = pid
        IN  ToPersistedPartitions(m[k])]

OpenChunk == [tok |-> "open", key |-> <<>>, value |-> <<>>]
CloseChunk == [tok |-> "close", key |-> <<>>, value |-> <<>>]
ZeroChunk == [tok |-> "zero", key |-> <<>>, value |-> <<>>]
EntryChunk(pid, value) == [tok |-> "entry", key |-> SerializePersistedID(pid), value |-> value]

\* The orders in which a HashMap may hand out its entries.
Orders(S) == {o \in [1..Cardinality(S) -> S] : \A i, j \in 1..Cardinality(S) : o[i] = o[j] => i = j}

\* serde_json::to_writer_pretty of a PersistedState, its entries in order o
SerializeState(ps, o) ==
    <<OpenChunk>> \o [i \in 1..Len(o) |-> EntryChunk(o[i], ps[o[i]])] \o <<CloseChunk>>

\* serde_json::from_reader into a PersistedState: the text must be the
\* opening, entries whose keys visit_str accepts, and the closing; of two
\* entries with one key the later stays.
ParseState(data) ==
    IF \/ Len(data) < 2
       \/ data[1].tok # "open"
       \/ data[Len(data)].tok # "close"
       \/ \E i \in 2..(Len(data) - 1) : data[i].tok # "entry" \/ ~VisitStr(data[i].key).ok
    THEN [ok |-> FALSE]
    ELSE LET entries == 2..(Len(data) - 1)
             pidOf(i) == VisitStr(data[i].key).id
         IN  [ok |-> TRUE,
              state |-> [pid \in {pidOf(i) : i \in entries} |->
                  LET i == CHOOSE i \in entries :
                               pidOf(i) = pid /\ \A j \in entries : pidOf(j) = pid => j <= i
                  IN  data[i].value]]

\* PersistedState::to_partition_lookup: the map of the rehydrated lookup
ToPartitionLookup(ps) ==
    [k \in {FromPersistedID(pid) : pid \in DOMAIN ps} |->
        LET pid == CHOOSE pid \in DOMAIN ps : FromPersistedID(pid) = k
        IN  ToPartitions(ps[pid])]

NoFile == [exists |-> FALSE, data |-> <<>>]
File(data) == [exists |-> TRUE, data |-> data]

\* A load that starts from an empty map when it cannot use the file.
LoadLenient(file, io) ==
    IF file.exists /\ ParseState(file.data).ok /\ io = "ok"
    THEN [ok |-> TRUE, map |-> ToPartitionLookup(ParseState(file.data).state)]
    ELSE [ok |-> TRUE, map |-> EmptyMap]

\* PartitionLookup::load: io says whether every engine listed opens.
Load(file, io) ==
    IF ~file.exists THEN [ok |-> TRUE, map |-> EmptyMap]
    ELSE IF ~ParseState(file.data).ok THEN [ok |-> FALSE]
    ELSE IF io # "ok" /\ \E pid \in DOMAIN ParseState(file.data).state :
                             ParseState(file.data).state[pid] # <<>>
    THEN [ok |-> FALSE]
    ELSE [ok |-> TRUE, map |-> ToPartitionLookup(ParseState(file.data).state)]

\* A lookup that answers an unknown namespace with another of the tenant's.
PartitionsOfTenant(m, tenant_id, namespace_id) ==
    IF \E k \in DOMAIN m : k[1] = tenant_id
    THEN [some |-> TRUE, partitions |-> m[CHOOSE k \in DOMAIN m : k[1] = tenant_id]]
    ELSE [some |-> FALSE]

\* PartitionLookup::partitions
Partitions(m, tenant_id, namespace_id) ==
    IF <<tenant_id, namespace_id>> \in DOMAIN m
    THEN [some |-> TRUE, partitions |-> m[<<tenant_id, namespace_id>>]]
    ELSE [some |-> FALSE]

\* slot() clones the hasher it is given: the lookup's own hasher stays as it was.
HasherAfterSlotShared(hs, key) == HashKey(hs, key)
HasherAfterSlot(hs, key) == hs

\* A routing that counts the slot from the end of the sequence.
GetPartitionForKeyFromEnd(m, hs, tenant_id, namespace_id, key) ==
    LET ps == Partitions(m, tenant_id, namespace_id)
    IN  IF ~ps.some THEN [kind |-> "None"]
        ELSE LET partition_count == Len(ps.partitions)
                 partition_index == Slot(hs, key, partition_count)
             IN  IF partition_index[1] = 0 /\ partition_index[2] < partition_count
                 THEN [kind |-> "Some", index |-> partition_index[2],
                       partition |-> ps.partitions[partition_count - partition_index[2]]]
                 ELSE [kind |-> "panic"]

\* PartitionLookup::get_partition_for_key: None, the partition at the slot,
\* or a panic when the slot is no index of the sequence.
GetPartitionForKey(m, hs, tenant_id, namespace_id, key) ==
    LET ps == Partitions(m, tenant_id, namespace_id)
    IN  IF ~ps.some THEN [kind |-> "None"]
        ELSE LET partition_count == Len(ps.partitions)
                 partition_index == Slot(hs, key, partition_count)
             IN  IF partition_index[1] = 0 /\ partition_index[2] < partition_count
                 THEN [kind |-> "Some", index |-> partition_index[2],
                       partition |-> ps.partitions[partition_index[2] + 1]]
                 ELSE [kind |-> "panic"]

\* add_partition_internal, first half: the sequence read under the entry's
\* guard, cloned, with the partition pushed
AddPartitionVec(m, partition) ==
    LET id == <<partition.tenant_id, partition.namespace_id>>
    IN  IF id \in DOMAIN m THEN Append(m[id], partition) ELSE <<partition>>

\* add_partition_internal, second half: insert replaces the entry
AddPartitionInsert(m, partition, vec) ==
    MapInsert(m, <<partition.tenant_id, partition.namespace_id>>, vec)

\* std::fs::File write of one chunk at offset off (chunks before it that the
\* file does not have read as zeros)
WriteAt(data, off, chunk) ==
    [i \in 1..(IF off + 1 > Len(data) THEN off + 1 ELSE Len(data)) |->
        IF i = off + 1 THEN chunk
        ELSE IF i <= Len(data) THEN data[i]
        ELSE ZeroChunk]

(***************************************************************************)
(* Calls into the lookup.  add_partition, thread by thread and step by     *)
(* step: the entry is read and cloned, then inserted; save opens the file  *)
(* (which truncates it), takes the PersistedState, and writes it chunk by  *)
(* chunk at its own offset.                                                *)
(***************************************************************************)
NoPartition == Partition(0, 0, 0)
ThIdle == [pc |-> "idle", partition |-> NoPartition, vec |-> <<>>, data |-> <<>>, off |-> 0]
NoPin == [set |-> FALSE]

\* add_partition_internal up to the end of the match: the cloned sequence
AddRead(t, tenant_id, namespace_id) ==
    /\ node = "up"
    /\ th[t].pc = "idle"
    /\ nextId <= MaxParts
    /\ LET partition == Partition(nextId, namespace_id, tenant_id)
       IN  th' = [th EXCEPT ![t] = [pc |-> "read", partition |-> partition,
                                    vec |-> AddPartitionVec(lookup, partition),
                                    data |-> <<>>, off |-> 0]]
    /\ nextId' = nextId + 1
    /\ dirty' = IF \E u \in Threads \ {t} : th[u].pc # "idle"
                THEN dirty \cup {"overlap"} ELSE dirty
    /\ UNCHANGED <<partVars, resp, crashes, lookup, hasher, disk, node, published, pinned, wire, gw>>

\* add_partition_internal: self.partitions.insert(id, partitions.into())
AddPublish(t) ==
    /\ th[t].pc = "read"
    /\ lookup' = AddPartitionInsert(lookup, th[t].partition, th[t].vec)
    /\ published' = published \cup {th[t].partition}
    /\ th' = [th EXCEPT ![t].pc = "inserted", ![t].vec = <<>>]
    /\ UNCHANGED <<partVars, resp, crashes, hasher, disk, node, nextId, dirty, pinned, wire, gw>>

\* save: File::options().write(true).create(true).truncate(true).open(..)?
SaveOpen(t, io) ==
    /\ th[t].pc = "inserted"
    /\ IF io = "ok"
       THEN /\ disk' = File(<<>>)
            /\ th' = [th EXCEPT ![t].pc = "opened"]
            /\ UNCHANGED <<resp, dirty>>
       ELSE /\ th' = [th EXCEPT ![t] = ThIdle]
            /\ resp' = [op |-> "add_partition", partition |-> th[t].partition, res |-> "Err"]
            /\ dirty' = dirty \cup {"failed"}
            /\ UNCHANGED disk
    /\ UNCHANGED <<partVars, crashes, lookup, hasher, node, nextId, published, pinned, wire, gw>>

\* save: let persisted_state: PersistedState = self.into()
SaveSnapshot(t, o) ==
    /\ th[t].pc = "opened"
    /\ o \in Orders(DOMAIN ToPersistedState(lookup))
    /\ th' = [th EXCEPT ![t].pc = "writing",
                        ![t].data = SerializeState(ToPersistedState(lookup), o),
                        ![t].off = 0]
    /\ UNCHANGED <<partVars, resp, crashes, lookup, hasher, disk, node, nextId, published,
                   dirty, pinned, wire, gw>>

\* save: one write of serde_json::to_writer_pretty, or its failure
SaveWrite(t, io) ==
    /\ th[t].pc = "writing"
    /\ th[t].off < Len(th[t].data)
    /\ IF io = "ok"
       THEN /\ disk' = File(WriteAt(disk.data, th[t].off, th[t].data[th[t].off + 1]))
            /\ th' = [th EXCEPT ![t].off = th[t].off + 1]
            /\ UNCHANGED <<resp, dirty>>
       ELSE /\ th' = [th EXCEPT ![t] = ThIdle]
            /\ resp' = [op |-> "add_partition", partition |-> th[t].partition, res |-> "Err"]
            /\ dirty' = dirty \cup {"failed"}
            /\ UNCHANGED disk
    /\ UNCHANGED <<partVars, crashes, lookup, hasher, node, nextId, published, pinned, wire, gw>>

\* save: Ok(()), and add_partition returns it
SaveDone(t) ==
    /\ th[t].pc = "writing"
    /\ th[t].off = Len(th[t].data)
    /\ th' = [th EXCEPT ![t] = ThIdle]
    /\ resp' = [op |-> "add_partition", partition |-> th[t].partition, res |-> "Ok"]
    /\ UNCHANGED <<partVars, crashes, lookup, hasher, disk, node, nextId, published, dirty,
                   pinned, wire, gw>>

\* A save that leaves the whole catalog in the file even when it fails.
SavedFileWhole(file, m, o, io) == File(SerializeState(ToPersistedState(m), o))

\* What save leaves in the file when it runs alone: all of the catalog, the
\* file as it was (open failed), or the chunks before the write that failed.
SavedFile(file, m, o, io) ==
    IF io = "ok" THEN File(SerializeState(ToPersistedState(m), o))
    ELSE IF io = "open_err" THEN file
    ELSE File(<<OpenChunk>>)

\* An add_partition that moves the records of the engines it knows into the
\* engine of the partition it is given.
AddPartitionDbDraining(d, partition) ==
    [id \in DOMAIN d |-> IF id = partition.id THEN d[id] ELSE EmptyDb]

\* add_partition and the engines: it is handed a Partition already built and
\* calls add_partition_internal and save, neither of which reads or writes an
\* engine.
AddPartitionDb(d, partition) == d

\* add_partition, the whole call, with no other call beside it
AddPartition(tenant_id, namespace_id, o, io) ==
    /\ node = "up"
    /\ \A t \in Threads : th[t].pc = "idle"
    /\ nextId <= MaxParts
    /\ LET partition == Partition(nextId, namespace_id, tenant_id)
           m == AddPartitionInsert(lookup, partition, AddPartitionVec(lookup, partition))
       IN  /\ o \in Orders(DOMAIN ToPersistedState(m))
           /\ lookup' = m
           /\ disk' = SavedFile(disk, m, o, io)
           /\ published' = published \cup {partition}
           /\ db' = AddPartitionDb(db, partition)
           /\ resp' = [op |-> "add_partition", partition |-> partition,
                       res |-> IF io = "ok" THEN "Ok" ELSE "Err"]
    /\ nextId' = nextId + 1
    /\ dirty' = IF io = "ok" THEN dirty ELSE dirty \cup {"failed"}
    /\ UNCHANGED <<call, lastPut, crashes, hasher, node, th, pinned, wire, gw>>

\* get_partition_for_key(tenant_id, namespace_id, key); pin says whether the
\* history keeps this routing for later comparison.
Route(tenant_id, namespace_id, key, pin) ==
    /\ node = "up"
    /\ LET r == [tenant_id |-> tenant_id, namespace_id |-> namespace_id, key |-> key,
                 seq |-> IF Partitions(lookup, tenant_id, namespace_id).some
                         THEN Partitions(lookup, tenant_id, namespace_id).partitions
                         ELSE <<>>,
                 some |-> Partitions(lookup, tenant_id, namespace_id).some,
                 res |-> GetPartitionForKey(lookup, hasher, tenant_id, namespace_id, key)]
       IN  /\ resp' = [op |-> "route", key |-> key, some |-> r.some, n |-> Len(r.seq),
                       res |-> r.res]
           /\ pinned' = IF pin THEN [set |-> TRUE, route |-> r, at |-> crashes] ELSE pinned
    /\ hasher' = HasherAfterSlot(hasher, key)
    /\ UNCHANGED <<partVars, crashes, lookup, disk, node, th, nextId, published, dirty, wire, gw>>

\* A reader calls partitions(tenant_id, namespace_id) and keeps the Arc it
\* is handed: a clone of the entry's Arc<[Partition]>, or None.
ReadPartitions(tenant_id, namespace_id) ==
    /\ node = "up"
    /\ pinned' = [set |-> TRUE, tenant_id |-> tenant_id, namespace_id |-> namespace_id,
                  held |-> Partitions(lookup, tenant_id, namespace_id)]
    /\ resp' = [op |-> "partitions",
                racing |-> {th[t].partition : t \in {u \in Threads : th[u].pc = "read"}}]
    /\ UNCHANGED <<partVars, crashes, lookup, hasher, disk, node, th, nextId, published,
                   dirty, wire, gw>>

\* The text "k<i>" of the i-th key of a walk.
RECURSIVE Decimal(_)
Decimal(n) == IF n < 10 THEN <<48 + n>> ELSE Decimal(n \div 10) \o <<48 + (n % 10)>>
JumpKey(i) == <<107>> \o Decimal(i)

\* The next key of the walk is routed over the pair's sequence as it is and
\* as add_partition_internal of one more partition makes it; the history
\* counts the keys walked and those whose partition differs.
RouteAcrossAppend(tenant_id, namespace_id) ==
    /\ node = "up"
    /\ LET walked == IF pinned.set THEN pinned.walked ELSE 0
           moved == IF pinned.set THEN pinned.moved ELSE 0
           key == JumpKey(walked + 1)
           partition == Partition(nextId, namespace_id, tenant_id)
           grown == AddPartitionInsert(lookup, partition, AddPartitionVec(lookup, partition))
           before == GetPartitionForKey(lookup, hasher, tenant_id, namespace_id, key)
           after == GetPartitionForKey(grown, HasherAfterSlot(hasher, key),
                                       tenant_id, namespace_id, key)
       IN  /\ walked < NumJumpKeys
           /\ resp' = [op |-> "reroute", key |-> key,
                       n |-> Len(AddPartitionVec(lookup, partition)) - 1,
                       added |-> partition, before |-> before, after |-> after]
           /\ pinned' = [set |-> TRUE, walked |-> walked + 1,
                         moved |-> IF before = after THEN moved ELSE moved + 1]
           /\ hasher' = HasherAfterSlot(HasherAfterSlot(hasher, key), key)
    /\ UNCHANGED <<partVars, crashes, lookup, disk, node, th, nextId, published, dirty, wire, gw>>

\* The process stops (calls in flight are cut off where they are) and is
\* started again: NodeStorageServer::new loads the catalog.
Restart(io) ==
    /\ crashes < MaxRestarts
    /\ crashes' = crashes + 1
    /\ LET loaded == Load(disk, io)
           clean == dirty = {} /\ node = "up" /\ \A t \in Threads : th[t].pc = "idle"
       IN  /\ node' = IF loaded.ok THEN "up" ELSE "down"
           /\ lookup' = IF loaded.ok THEN loaded.map ELSE EmptyMap
           /\ resp' = [op |-> "restart", clean |-> clean, io |-> io, ok |-> loaded.ok,
                       before |-> lookup,
                       after |-> IF loaded.ok THEN loaded.map ELSE EmptyMap]
    /\ hasher' = Crc64HasherNew
    /\ th' = [t \in Threads |-> ThIdle]
    /\ call' = [t \in Threads |-> Idle]
    /\ published' = {}
    /\ UNCHANGED <<db, lastPut, disk, nextId, dirty, pinned, wire, gw>>

(***************************************************************************)
(* main.rs: the RPC facade.  A request carries the Identity the            *)
(* interceptor attached (its tenant), the namespace id as text, the key,   *)
(* the value and an optional crc.                                          *)
(***************************************************************************)
NsTexts == {UuidText(u) : u \in Uuids} \cup {<<-1>>}
None == [some |-> FALSE]
Some(x) == [some |-> TRUE, val |-> x]
Status(code, msg) == [code |-> code, msg |-> msg]

\* The CRC-32 of a byte string in one piece.
Crc32Of(bytes) == Crc32Finalize(Crc32Update(Crc32New, bytes))

\* The CRC-32 of key followed by value, for the model's keys and values.
RightCrc == [key \in Keys |-> [value \in Values |-> Crc32Of(key \o value)]]

\* A checksum that leaves the key out.
CalculatedCrcValueOnly(key, value) == Crc32Finalize(Crc32Update(Crc32New, value))

\* put, lines 136-139: Hasher::new, update(key), update(value), finalize
CalculatedCrcOf(key, value) == Crc32Finalize(Crc32Update(Crc32Update(Crc32New, key), value))

\* The same for the model's keys and values, computed once.
CalculatedCrcMemo == [key \in Keys |-> [value \in Values |-> CalculatedCrcOf(key, value)]]
CalculatedCrc(key, value) ==
    IF key \in Keys /\ value \in Values THEN CalculatedCrcMemo[key][value]
    ELSE CalculatedCrcOf(key, value)

\* A check that lets every crc pass.
CrcMismatchNever(crc, calculated_crc) == FALSE

\* A check that also rejects a request without a crc.
CrcMismatchStrict(crc, calculated_crc) == ~crc.some \/ crc.val # calculated_crc

\* put, lines 141-151: a crc that is given and differs is a mismatch
CrcMismatch(crc, calculated_crc) == crc.some /\ crc.val # calculated_crc

\* A PutValue that carries version 0.
RpcPutValueVersionZero(calculated_crc, value) ==
    [crc |-> calculated_crc, version |-> <<0, 0>>, value |-> value]

\* put, lines 162-166: the PutValue handed to the partition
RpcPutValue(calculated_crc, value) ==
    [crc |-> calculated_crc, version |-> <<0, 1>>, value |-> value]

\* Storage::put, the whole handler
RpcPut(tenant, ns_text, key, value, crc, io) ==
    /\ node = "up"
    /\ LET ns == ParseUuid(ns_text)
           calculated_crc == CalculatedCrc(key, value)
           routed == GetPartitionForKey(lookup, hasher, tenant, ns.uuid, key)
           pv == RpcPutValue(calculated_crc, value)
           req == [tenant |-> tenant, ns |-> ns_text, key |-> key, value |-> value,
                   crc |-> crc]
       IN  IF ~ns.ok
           THEN /\ resp' = [op |-> "rpc_put", req |-> req, calc |-> None, part |-> 0,
                            status |-> Status("InvalidArgument", "invalid uuid")]
                /\ UNCHANGED <<db, lastPut, hasher>>
           ELSE IF CrcMismatch(crc, calculated_crc)
           THEN /\ resp' = [op |-> "rpc_put", req |-> req, calc |-> Some(calculated_crc),
                            part |-> 0,
                            status |-> Status("InvalidArgument", "crc mismatch")]
                /\ UNCHANGED <<db, lastPut, hasher>>
           ELSE IF routed.kind # "Some"
           THEN /\ resp' = [op |-> "rpc_put", req |-> req, calc |-> Some(calculated_crc),
                            part |-> 0,
                            status |-> IF routed.kind = "None"
                                       THEN Status("NotFound", "partition not found")
                                       ELSE Status("panic", "")]
                /\ hasher' = IF routed.kind = "None" THEN hasher ELSE HasherAfterSlot(hasher, key)
                /\ UNCHANGED <<db, lastPut>>
           ELSE LET id == routed.partition.id
                IN  /\ db' = [db EXCEPT ![id] = PartitionPutDb(db[id], key, pv, io)]
                    /\ lastPut' = IF io = "ok"
                                  THEN [lastPut EXCEPT ![id][key] = [kind |-> "put", pv |-> pv]]
                                  ELSE lastPut
                    /\ hasher' = HasherAfterSlot(hasher, key)
                    /\ resp' = [op |-> "rpc_put", req |-> req, calc |-> Some(calculated_crc),
                                part |-> id,
                                status |-> IF io = "ok" THEN Status("Ok", "")
                                           ELSE Status("Internal", "internal error"),
                                out |-> PartitionPutResult(pv, io)]
    /\ UNCHANGED <<call, crashes, lookup, disk, node, th, nextId, published, dirty, pinned>>

\* Storage::get, the whole handler: every error of the partition's get is
\* answered NotFound("not found")
RpcGet(tenant, ns_text, key, io) ==
    /\ node = "up"
    /\ LET ns == ParseUuid(ns_text)
           routed == GetPartitionForKey(lookup, hasher, tenant, ns.uuid, key)
           req == [tenant |-> tenant, ns |-> ns_text, key |-> key]
       IN  IF ~ns.ok
           THEN /\ resp' = [op |-> "rpc_get", req |-> req, part |-> 0,
                            status |-> Status("InvalidArgument", "invalid uuid")]
                /\ UNCHANGED hasher
           ELSE IF routed.kind # "Some"
           THEN /\ resp' = [op |-> "rpc_get", req |-> req, part |-> 0,
                            status |-> IF routed.kind = "None"
                                       THEN Status("NotFound", "partition not found")
                                       ELSE Status("panic", "")]
                /\ hasher' = IF routed.kind = "None" THEN hasher ELSE HasherAfterSlot(hasher, key)
           ELSE LET id == routed.partition.id
                    got == PartitionGet(db[id], key, io)
                IN  /\ hasher' = HasherAfterSlot(hasher, key)
                    /\ resp' = [op |-> "rpc_get", req |-> req, part |-> id,
                                status |-> IF got.kind = "Ok" THEN Status("Ok", "")
                                           ELSE IF got.kind = "panic" THEN Status("panic", "")
                                           ELSE Status("NotFound", "not found"),
                                out |-> got]
    /\ UNCHANGED <<partVars, crashes, lookup, disk, node, th, nextId, published, dirty, pinned>>

\* The results in the order the futures completed.
JoinAllAsCompleted(results, completed) == [i \in 1..Len(results) |-> results[completed[i]]]

\* join_all: the results in the order of the futures it was given, whatever
\* the order they completed in
JoinAll(results, completed) == results

\* ListOptions built from the limit and start_key of a request.
ListOptionsOfRequest(limit, start_key) == [limit |-> limit, start_at |-> start_key]

\* list_keys, line 253: every partition is listed with ListOptions::default()
RpcListOptions(limit, start_key) == ListOptionsDefault

\* list_keys, lines 270-280: the key lists appended one after another
RECURSIVE ExtendFromSlices(_)
ExtendFromSlices(results) ==
    IF results = <<>> THEN <<>> ELSE Head(results).keys \o ExtendFromSlices(Tail(results))

\* A list_keys that answers a pair without partitions as put and get do.
ListKeysNoPartitionsNotFound(req, completed) ==
    [op |-> "rpc_list_keys", req |-> req, status |-> Status("NotFound", "partition not found"),
     parts |-> <<>>, listed |-> <<>>, completed |-> completed, keys |-> <<>>]

\* Storage::list_keys, the else of the let: "if there are no partitions
\* return an empty list", Ok(Response::new(ListKeysResponse::default()))
ListKeysNoPartitions(req, completed) ==
    [op |-> "rpc_list_keys", req |-> req, status |-> Status("Ok", ""),
     parts |-> <<>>, listed |-> <<>>, completed |-> completed, keys |-> <<>>]

\* Storage::list_keys, the whole handler; ios[i] is what the engine of the
\* i-th partition does, completed the order the listings finish in
RpcListKeys(tenant, ns_text, limit, start_key, ios, completed) ==
    /\ node = "up"
    /\ LET ns == ParseUuid(ns_text)
           found == IF ns.ok THEN Partitions(lookup, tenant, ns.uuid) ELSE [some |-> FALSE]
           partitions == IF found.some THEN found.partitions ELSE <<>>
           req == [tenant |-> tenant, ns |-> ns_text, limit |-> limit,
                   start_key |-> start_key]
           listed == [i \in 1..Len(partitions) |->
                         PartitionListKeys(db[partitions[i].id],
                                           RpcListOptions(limit, start_key), ios[i])]
           joined == JoinAll(listed, completed)
       IN  /\ Len(ios) = Len(partitions)
           /\ completed \in Orders(1..Len(partitions))
           /\ resp' =
                IF ~ns.ok
                THEN [op |-> "rpc_list_keys", req |-> req, status |-> Status("panic", ""),
                      parts |-> <<>>, listed |-> <<>>, completed |-> completed, keys |-> <<>>]
                ELSE IF ~found.some
                THEN ListKeysNoPartitions(req, completed)
                ELSE IF \E i \in 1..Len(joined) : joined[i].kind = "panic"
                THEN [op |-> "rpc_list_keys", req |-> req, status |-> Status("panic", ""),
                      parts |-> Ids(partitions), listed |-> listed, completed |-> completed,
                      keys |-> <<>>]
                ELSE IF \E i \in 1..Len(joined) : joined[i].kind # "Ok"
                THEN [op |-> "rpc_list_keys", req |-> req,
                      status |-> Status("Internal", "internal error"),
                      parts |-> Ids(partitions), listed |-> listed, completed |-> completed,
                      keys |-> <<>>]
                ELSE [op |-> "rpc_list_keys", req |-> req, status |-> Status("Ok", ""),
                      parts |-> Ids(partitions), listed |-> listed, completed |-> completed,
                      keys |-> ExtendFromSlices(joined)]
    /\ UNCHANGED <<partVars, crashes, lookVars>>

(***************************************************************************)
(* auth.rs: the interceptor in front of the storage service.  The value of *)
(* an Authorization entry is a sequence of elements: a space, a word of    *)
(* letters, a byte outside ASCII, or the text of a JWT kept whole with the *)
(* sub claim it carries and whether its signature is the issuer's.         *)
(***************************************************************************)
Sp == [c |-> "space", sub |-> 0, sig |-> FALSE]
Word == [c |-> "word", sub |-> 0, sig |-> FALSE]
NonAscii == [c |-> "nonascii", sub |-> 0, sig |-> FALSE]
Jwt(sub, sig) == [c |-> "jwt", sub |-> sub, sig |-> sig]

\* HeaderValue::to_str: only a value of visible ASCII is a str
ToStr(value) ==
    IF \E i \in 1..Len(value) : value[i] = NonAscii THEN [ok |-> FALSE]
    ELSE [ok |-> TRUE, str |-> value]

\* str::split_ascii_whitespace: the maximal runs without a space, in order
RECURSIVE SplitAsciiWhitespace(_)
SplitAsciiWhitespace(str) ==
    IF str = <<>> THEN <<>>
    ELSE IF Head(str) = Sp THEN SplitAsciiWhitespace(Tail(str))
    ELSE LET ends == {i \in 1..Len(str) : str[i] = Sp}
             n == IF ends = {} THEN Len(str) + 1
                  ELSE CHOOSE i \in ends : \A j \in ends : i <= j
         IN  <<SubSeq(str, 1, n - 1)>> \o SplitAsciiWhitespace(SubSeq(str, n, Len(str)))

\* Iterator::nth(0): the first token.
Nth0(tokens) == IF Len(tokens) < 1 THEN None ELSE Some(tokens[1])

\* Iterator::nth(1): the second token
Nth1(tokens) == IF Len(tokens) < 2 THEN None ELSE Some(tokens[2])

\* AuthHeader::try_from(&MetadataMap): metadata is the Authorization entry,
\* None when the request has none
AuthHeaderTryFrom(metadata) ==
    IF ~metadata.some THEN [ok |-> FALSE]
    ELSE IF ~ToStr(metadata.val).ok THEN [ok |-> FALSE]
    ELSE LET token == Nth1(SplitAsciiWhitespace(ToStr(metadata.val).str))
         IN  IF ~token.some THEN [ok |-> FALSE]
             ELSE [ok |-> TRUE, bearer |-> token.val]

\* RsaJwtValidator::parse: decode::<Claims> accepts the text of one JWT
\* signed with the issuer's key, whatever its expiry, and yields its claims
JwtValidatorParse(token_str) ==
    IF Len(token_str) = 1 /\ token_str[1].c = "jwt" /\ token_str[1].sig
    THEN [ok |-> TRUE, identity |-> [token |-> token_str, claims |-> [sub |-> token_str[1].sub]]]
    ELSE [ok |-> FALSE]

\* Identity::tenant_id
IdentityTenantId(identity) == identity.claims.sub

\* AuthInterceptor::call: the status it rejects with, or the request with
\* the Identity in its extensions; parsed is what the validator was given
AuthInterceptorCall(metadata) ==
    LET auth_header == AuthHeaderTryFrom(metadata)
    IN  IF ~auth_header.ok
        THEN [kind |-> "Err", parsed |-> None, extensions |-> None,
              status |-> Status("Unauthenticated", "auth header missing")]
        ELSE IF ~JwtValidatorParse(auth_header.bearer).ok
        THEN [kind |-> "Err", parsed |-> Some(auth_header.bearer), extensions |-> None,
              status |-> Status("NotFound", "not found")]
        ELSE [kind |-> "Ok", parsed |-> Some(auth_header.bearer),
              extensions |-> Some(JwtValidatorParse(auth_header.bearer).identity),
              status |-> Status("Ok", "")]

\* A service that hands every request to its handler.
DispatchesAlways(outcome) == TRUE

\* main, line 82: StorageServer::with_interceptor calls the service only
\* with a request the interceptor returned
Dispatches(outcome) == outcome.kind = "Ok"

\* A gateway that has no table and has served nothing.
NoHttp ==
    [op |-> "none", header |-> None, namespace |-> <<>>, id |-> <<>>, crc |-> None,
     tenant |-> None, exists |-> "unasked", sent |-> FALSE, status |-> 0, token |-> <<>>]
NoGateway == [tenants |-> {}, namespaces |-> {}, http |-> NoHttp]

\* No request is on the wire.
NoWire == [stage |-> "none", metadata |-> None]

\* A request arrives with its metadata
Receive(metadata) ==
    /\ node = "up"
    /\ wire.stage = "none"
    /\ wire' = [stage |-> "received", metadata |-> metadata]
    /\ UNCHANGED <<partVars, resp, crashes, lookVars, gw>>

\* What a request leaves behind when it does not reach a handler, or when
\* the handler finds no Identity in the extensions and unwrap panics.
Undispatched(outcome, method) ==
    /\ resp' = IF Dispatches(outcome)
               THEN [op |-> method, req |-> [tenant |-> 0], part |-> 0,
                     status |-> Status("panic", "")]
               ELSE [op |-> "intercepted", method |-> method, parsed |-> outcome.parsed,
                     status |-> outcome.status]
    /\ UNCHANGED <<partVars, crashes, lookVars>>

\* The put request on the wire is served: the interceptor, then Storage::put
ServePut(ns_text, key, value, crc, io) ==
    LET outcome == AuthInterceptorCall(wire.metadata)
    IN  /\ wire.stage = "received"
        /\ wire' = [stage |-> "served", metadata |-> wire.metadata]
        /\ UNCHANGED gw
        /\ IF Dispatches(outcome) /\ outcome.extensions.some
           THEN RpcPut(IdentityTenantId(outcome.extensions.val), ns_text, key, value, crc, io)
           ELSE Undispatched(outcome, "rpc_put")

\* The get request on the wire is served: the interceptor, then Storage::get
ServeGet(ns_text, key, io) ==
    LET outcome == AuthInterceptorCall(wire.metadata)
    IN  /\ wire.stage = "received"
        /\ wire' = [stage |-> "served", metadata |-> wire.metadata]
        /\ UNCHANGED gw
        /\ IF Dispatches(outcome) /\ outcome.extensions.some
           THEN RpcGet(IdentityTenantId(outcome.extensions.val), ns_text, key, io)
           ELSE Undispatched(outcome, "rpc_get")

\* The response has been sent
Reply ==
    /\ wire.stage = "served"
    /\ wire' = NoWire
    /\ UNCHANGED <<partVars, resp, crashes, lookVars, gw>>

(***************************************************************************)
(* kvstore: the HTTP gateway.  Its tables are rows of tenants and of        *)
(* namespaces; a handler is one step, the RPC it awaits included: the      *)
(* request it sends goes through the interceptor and the storage handler,  *)
(* and stays on the wire until the reply.                                  *)
(***************************************************************************)
\* create_tables: a row of tenants and a row of namespaces
TenantRow(u) == [id |-> 10 + u, uuid |-> u, name |-> <<100 + u>>]
NamespaceRow(name, tenant_id) == [name |-> name, tenant_id |-> tenant_id]

\* namespace_exists: the select over namespaces joined with tenants
NamespaceExists(g, tenant, namespace) ==
    \E n \in g.namespaces, t \in g.tenants :
        n.tenant_id = t.id /\ t.uuid = tenant /\ n.name = namespace

\* Header::parse for AuthHeader: the second token of the Authorization
\* header of the HTTP request
AuthHeaderParse(header) ==
    IF ~header.some THEN [ok |-> FALSE]
    ELSE IF ~ToStr(header.val).ok THEN [ok |-> FALSE]
    ELSE LET auth == Nth1(SplitAsciiWhitespace(ToStr(header.val).str))
         IN  IF ~auth.some THEN [ok |-> FALSE]
             ELSE [ok |-> TRUE, bearer |-> auth.val]

\* RsaJwtIssuer::new_identity: a JWT signed with the issuer's key whose sub
\* is the tenant id
NewIdentity(tenant_id) ==
    [token |-> <<Jwt(tenant_id, TRUE)>>, claims |-> [sub |-> tenant_id]]

\* JwtIssuerVerifier: parse and new_identity hand over to the validator and
\* to the issuer
JwtIssuerVerifierParse(token_str) == JwtValidatorParse(token_str)
JwtIssuerVerifierNewIdentity(tenant_id) == NewIdentity(tenant_id)

\* A conversion that leaves the scheme out of the entry.
MetadataMapFromBare(bearer) == Some(bearer)

\* From<AuthHeader> for MetadataMap: an authorization entry "Bearer <bearer>",
\* or no entry when that is no metadata value
MetadataMapFrom(bearer) ==
    IF \E i \in 1..Len(bearer) : bearer[i] = NonAscii THEN None
    ELSE Some(<<Word, Sp>> \o bearer)

\* put, lines 337-344: the crc of the body is compared with itself
GatewayCrcRejects(client_crc, crc) == client_crc.some /\ client_crc.val # client_crc.val

\* put, line 352: the crc of the PutRequest is the one computed at 330-333
PutRequestCrc(client_crc, crc) == Some(crc)

\* The HTTP status of a handler whose RPC came back with status
HttpStatusOf(status) == IF status.code = "Ok" THEN 200 ELSE 500

\* A handler answers without having sent an RPC.
GatewayAnswers(exchange, tenant, exists, status) ==
    /\ gw' = [gw EXCEPT !.http = [exchange EXCEPT !.tenant = tenant, !.exists = exists,
                                                  !.sent = FALSE, !.status = status]]
    /\ UNCHANGED <<partVars, resp, crashes, lookVars, wire>>

\* put: PUT /namespaces/{namespace}/keys/{id}
GatewayPut(header, namespace, id, value, client_crc, io) ==
    LET auth_data == AuthHeaderParse(header)
        parsed == IF auth_data.ok THEN JwtIssuerVerifierParse(auth_data.bearer)
                  ELSE [ok |-> FALSE]
        tenant_id == IdentityTenantId(parsed.identity)
        crc == CalculatedCrc(id, value)
        metadata == MetadataMapFrom(auth_data.bearer)
        outcome == AuthInterceptorCall(metadata)
        exchange == [NoHttp EXCEPT !.op = "put", !.header = header, !.namespace = namespace,
                                   !.id = id, !.crc = client_crc]
    IN  /\ gw.http.op = "none"
        /\ IF ~auth_data.ok THEN GatewayAnswers(exchange, None, "unasked", 400)
           ELSE IF ~parsed.ok THEN GatewayAnswers(exchange, None, "unasked", 404)
           ELSE IF ~NamespaceExists(gw, tenant_id, namespace)
           THEN GatewayAnswers(exchange, Some(tenant_id), "false", 404)
           ELSE IF GatewayCrcRejects(client_crc, crc)
           THEN GatewayAnswers(exchange, Some(tenant_id), "true", 400)
           ELSE /\ wire' = [stage |-> "served", metadata |-> metadata]
                /\ IF Dispatches(outcome) /\ outcome.extensions.some
                   THEN RpcPut(IdentityTenantId(outcome.extensions.val), namespace, id,
                               value, PutRequestCrc(client_crc, crc), io)
                   ELSE Undispatched(outcome, "rpc_put")
                /\ gw' = [gw EXCEPT !.http =
                            [exchange EXCEPT !.tenant = Some(tenant_id), !.exists = "true",
                                             !.sent = TRUE,
                                             !.status = HttpStatusOf(resp'.status)]]

\* get: GET /namespaces/{namespace}/keys/{id}
GatewayGet(header, namespace, id, io) ==
    LET auth_data == AuthHeaderParse(header)
        parsed == IF auth_data.ok THEN JwtIssuerVerifierParse(auth_data.bearer)
                  ELSE [ok |-> FALSE]
        tenant_id == IdentityTenantId(parsed.identity)
        metadata == MetadataMapFrom(auth_data.bearer)
        outcome == AuthInterceptorCall(metadata)
        exchange == [NoHttp EXCEPT !.op = "get", !.header = header, !.namespace = namespace,
                                   !.id = id]
    IN  /\ gw.http.op = "none"
        /\ IF ~auth_data.ok THEN GatewayAnswers(exchange, None, "unasked", 400)
           ELSE IF ~parsed.ok THEN GatewayAnswers(exchange, None, "unasked", 404)
           ELSE IF ~NamespaceExists(gw, tenant_id, namespace)
           THEN GatewayAnswers(exchange, Some(tenant_id), "false", 404)
           ELSE /\ wire' = [stage |-> "served", metadata |-> metadata]
                /\ IF Dispatches(outcome) /\ outcome.extensions.some
                   THEN RpcGet(IdentityTenantId(outcome.extensions.val), namespace, id, io)
                   ELSE Undispatched(outcome, "rpc_get")
                /\ gw' = [gw EXCEPT !.http =
                            [exchange EXCEPT !.tenant = Some(tenant_id), !.exists = "true",
                                             !.sent = TRUE,
                                             !.status = HttpStatusOf(resp'.status)]]

\* list_keys: GET /namespaces/{namespace}/keys
GatewayListKeys(header, namespace, ios, completed) ==
    LET auth_data == AuthHeaderParse(header)
        parsed == IF auth_data.ok THEN JwtIssuerVerifierParse(auth_data.bearer)
                  ELSE [ok |-> FALSE]
        tenant_id == IdentityTenantId(parsed.identity)
        metadata == MetadataMapFrom(auth_data.bearer)
        outcome == AuthInterceptorCall(metadata)
        exchange == [NoHttp EXCEPT !.op = "list_keys", !.header = header,
                                   !.namespace = namespace]
    IN  /\ gw.http.op = "none"
        /\ IF ~auth_data.ok THEN GatewayAnswers(exchange, None, "unasked", 400)
           ELSE IF ~parsed.ok THEN GatewayAnswers(exchange, None, "unasked", 404)
           ELSE /\ wire' = [stage |-> "served", metadata |-> metadata]
                /\ IF Dispatches(outcome) /\ outcome.extensions.some
                   THEN RpcListKeys(IdentityTenantId(outcome.extensions.val), namespace,
                                    None, None, ios, completed)
                   ELSE Undispatched(outcome, "rpc_list_keys")
                /\ gw' = [gw EXCEPT !.http =
                            [exchange EXCEPT !.tenant = Some(tenant_id), !.exists = "unasked",
                                             !.sent = TRUE,
                                             !.status = HttpStatusOf(resp'.status)]]

\* gen_token: POST /tokens with the name of a tenant
GatewayGenToken(name) ==
    LET rows == {t \in gw.tenants : t.name = name}
        exchange == [NoHttp EXCEPT !.op = "gen_token", !.id = name]
    IN  /\ gw.http.op = "none"
        /\ IF rows = {} THEN GatewayAnswers(exchange, None, "unasked", 400)
           ELSE \E tenant \in rows :
                   /\ gw' = [gw EXCEPT !.http =
                               [exchange EXCEPT
                                   !.tenant = Some(tenant.uuid), !.status = 200,
                                   !.token = JwtIssuerVerifierNewIdentity(tenant.uuid).token]]
                   /\ UNCHANGED <<partVars, resp, crashes, lookVars, wire>>

\* The HTTP response has been sent; nothing of the exchange is in flight
GatewayReply ==
    /\ gw.http.op # "none"
    /\ wire' = NoWire
    /\ gw' = [gw EXCEPT !.http = NoHttp]
    /\ resp' = NoResp
    /\ UNCHANGED <<partVars, crashes, lookVars>>

(***************************************************************************)
(* Initial states.                                                         *)
(***************************************************************************)
\* A node started in an empty directory.
Init ==
    /\ db = [id \in PartIds |-> EmptyDb]
    /\ call = [t \in Threads |-> Idle]
    /\ lastPut = [id \in PartIds |-> [k \in Keys |-> NoWrite]]
    /\ resp = NoResp
    /\ crashes = 0
    /\ lookup = EmptyMap
    /\ hasher = Crc64HasherNew
    /\ disk = NoFile
    /\ node = "up"
    /\ th = [t \in Threads |-> ThIdle]
    /\ nextId = 1
    /\ published = {}
    /\ dirty = {}
    /\ pinned = NoPin
    /\ wire = NoWire
    /\ gw = NoGateway

\* Catalog files of one entry, its array empty or holding partition 1.
OneEntryCatalogs ==
    UNION {{<<OpenChunk, EntryChunk(ToPersistedID(k), v), CloseChunk>> :
              v \in {<<>>, <<ToPersistedPartition(Partition(1, k[2], k[1]))>>}} :
           k \in Uuids \X Uuids}

\* A node started in a directory that holds any such catalog, or none.
InitAnyCatalog ==
    /\ db = [id \in PartIds |-> EmptyDb]
    /\ call = [t \in Threads |-> Idle]
    /\ lastPut = [id \in PartIds |-> [k \in Keys |-> NoWrite]]
    /\ resp = NoResp
    /\ crashes = 0
    /\ disk \in {NoFile} \cup {File(d) : d \in OneEntryCatalogs}
    /\ lookup = Load(disk, "ok").map
    /\ hasher = Crc64HasherNew
    /\ node = "up"
    /\ th = [t \in Threads |-> ThIdle]
    /\ nextId = IF disk.exists THEN 2 ELSE 1
    /\ published = {}
    /\ dirty = {}
    /\ pinned = NoPin
    /\ wire = NoWire
    /\ gw = NoGateway

\* The keys of the engines that are read and listed: "a", "b", ... and "ab".
ScanKeys == {<<96 + i>> : i \in 1..NumScanKeys} \cup {<<97, 98>>}

\* The record an earlier run put under key k.
StoredPv(k) == [crc |-> <<Len(k), k[1]>>, version |-> <<0, Len(k)>>, value |-> <<120>> \o k]

\* An engine directory as Partition::new may find it: the keys of full have
\* a value and a metadata row, the keys of valueOnly and metaOnly one of them.
Engine(full, valueOnly, metaOnly) ==
    [default |-> [k \in full \cup valueOnly |-> StoredPv(k).value],
     metadata |-> [k \in full \cup metaOnly |-> MetadataAsBytes(StoredPv(k))]]

Engines ==
    UNION {{Engine(full, {}, {})}
           \cup {Engine(full, {k}, {}) : k \in ScanKeys \ full}
           \cup {Engine(full, {}, {k}) : k \in ScanKeys \ full} : full \in SUBSET ScanKeys}
    \cup {Engine({<<i>> : i \in 1..(DefaultListLimit + 1)}, {}, {})}

\* A process that has just opened partition 1 over any such directory.
InitEngine ==
    /\ db \in {[id \in PartIds |-> IF id = 1 THEN e ELSE EmptyDb] : e \in Engines}
    /\ call = [t \in Threads |-> Idle]
    /\ lastPut = [id \in PartIds |-> [k \in ScanKeys |-> NoWrite]]
    /\ resp = NoResp
    /\ crashes = 0
    /\ lookup = EmptyMap
    /\ hasher = Crc64HasherNew
    /\ disk = NoFile
    /\ node = "up"
    /\ th = [t \in Threads |-> ThIdle]
    /\ nextId = 1
    /\ published = {}
    /\ dirty = {}
    /\ pinned = NoPin
    /\ wire = NoWire
    /\ gw = NoGateway

(***************************************************************************)
(* Specifications.                                                         *)
(***************************************************************************)
\* The values callers put: the i-th value with the i-th crc, any version.
PutValues ==
    {[crc |-> U32Sample(1 + (i % NumU32)), version |-> v, value |-> <<119 + i>>] :
        i \in 1..NumValues, v \in U32Samples}

\* One partition under concurrent callers and crashes.
NextPartition ==
    \/ \E t \in Threads, key \in Keys, pv \in PutValues : PartPutBegin(t, 1, key, pv)
    \/ \E t \in Threads, io \in IoOutcomes : PartPutWrite(t, io)
    \/ \E t \in Threads, key \in Keys : PartDeleteBegin(t, 1, key)
    \/ \E t \in Threads, io \in IoOutcomes : PartDeleteWrite(t, io)
    \/ \E t \in Threads, key \in Keys, io \in {"ok", "meta_err", "value_err"} :
          PartGet(t, 1, key, io)
    \/ \E t \in Threads, key \in Keys, io \in IoOutcomes : PartExists(t, 1, key, io)
    \/ PartCrash

SpecPartition == Init /\ [][NextPartition]_vars

\* One partition whose gets run beside puts and deletes.
NextReads ==
    \/ \E t \in Threads, key \in Keys, pv \in PutValues : PartPutBegin(t, 1, key, pv)
    \/ \E t \in Threads : PartPutWrite(t, "ok")
    \/ \E t \in Threads, key \in Keys : PartDeleteBegin(t, 1, key)
    \/ \E t \in Threads : PartDeleteWrite(t, "ok")
    \/ \E t \in Threads, key \in Keys : PartGetBegin(t, 1, key)
    \/ \E t \in Threads, io \in {"ok", "meta_err", "value_err"} : PartGetRead(t, io)

SpecReads == Init /\ [][NextReads]_vars

\* The crcs a client may send with (key, value): none, the right one, others.
CrcChoices(key, value) == {None, Some(RightCrc[key][value])} \cup {Some(c) : c \in U32Samples}

\* The values RPC clients put.
RpcValues == {<<119 + i>> : i \in 1..NumRpcValues}

\* The storage service: RPCs, and partitions added one call at a time.
Next ==
    \/ \E tenant \in Uuids, ns \in NsTexts, key \in Keys, value \in RpcValues, io \in IoOutcomes :
          \E crc \in CrcChoices(key, value) : RpcPut(tenant, ns, key, value, crc, io) /\ UNCHANGED <<wire, gw>>
    \/ \E tenant \in Uuids, ns \in NsTexts, key \in Keys, io \in {"ok", "meta_err", "value_err"} :
          RpcGet(tenant, ns, key, io) /\ UNCHANGED <<wire, gw>>
    \/ \E tenant \in Uuids, ns \in Uuids :
          \E o \in Orders({ToPersistedID(k) : k \in DOMAIN lookup \cup {<<tenant, ns>>}}) :
              AddPartition(tenant, ns, o, "ok")

Spec == Init /\ [][Next]_vars

\* The options callers of list_keys give.
ListOptionsSet ==
    {[limit |-> l, start_at |-> st] :
        l \in {None} \cup {Some(n) : n \in 0..MaxLimit},
        st \in {None} \cup {Some(k) : k \in ScanKeys}}

\* The reads of one partition over an engine directory that exists.
NextEngine ==
    \/ \E key \in ScanKeys, io \in {"ok", "meta_err", "value_err"} : PartGet(1, 1, key, io)
    \/ \E opts \in ListOptionsSet, io \in IoOutcomes : PartListKeys(1, 1, opts, io)

SpecEngine == InitEngine /\ [][NextEngine]_vars

\* The u32 values whose halves are the first NumHalves of: the least and the
\* greatest, the values around a byte boundary, one, the top bit, and then
\* others.
HalfEdges == <<0, 65535, 255, 256, 1, 32768>>
Half(i) == IF i <= Len(HalfEdges) THEN HalfEdges[i] ELSE (i * 40503) % 65536
HeaderU32s == {<<Half(i), Half(j)>> : i \in 1..NumHalves, j \in 1..NumHalves}
HeaderPutValues == {[crc |-> c, version |-> v, value |-> <<120>>] : c \in HeaderU32s, v \in HeaderU32s}

\* One put of a record with any such crc and version, then reads of it.
NextHeader ==
    \/ \E pv \in HeaderPutValues :
          /\ lastPut[1][<<97>>].kind = "none"
          /\ PartPutBegin(1, 1, <<97>>, pv)
    \/ PartPutWrite(1, "ok")
    \/ \E io \in {"ok", "meta_err", "value_err"} : PartGet(1, 1, <<97>>, io)
    \/ \E io \in IoOutcomes : PartListKeys(1, 1, ListOptionsDefault, io)

SpecHeader == Init /\ [][NextHeader]_vars

\* The limits and start keys a list_keys request carries.
RequestLimits == {None, Some(1)}
RequestStartKeys == {None} \cup {Some(k) : k \in Keys}

\* How many partitions the pair named by a request has now.
PartitionCount(tenant, ns_text) ==
    IF ParseUuid(ns_text).ok /\ Partitions(lookup, tenant, ParseUuid(ns_text).uuid).some
    THEN Len(Partitions(lookup, tenant, ParseUuid(ns_text).uuid).partitions)
    ELSE 0

\* The storage service with its three methods as tenant 1 calls them,
\* partitions added one call at a time.
NextList ==
    \/ \E ns \in NsTexts, key \in Keys, value \in RpcValues :
          RpcPut(1, ns, key, value, None, "ok") /\ UNCHANGED <<wire, gw>>
    \/ \E ns \in NsTexts, key \in Keys : RpcGet(1, ns, key, "ok") /\ UNCHANGED <<wire, gw>>
    \/ \E ns \in NsTexts, limit \in RequestLimits, start_key \in RequestStartKeys :
          \E ios \in [1..PartitionCount(1, ns) -> {"ok", "err"}],
             completed \in Orders(1..PartitionCount(1, ns)) :
              RpcListKeys(1, ns, limit, start_key, ios, completed) /\ UNCHANGED <<wire, gw>>
    \/ \E ns \in Uuids :
          \E o \in Orders({ToPersistedID(k) : k \in DOMAIN lookup \cup {<<1, ns>>}}) :
              AddPartition(1, ns, o, "ok")

SpecList == Init /\ [][NextList]_vars

\* The Authorization entries requests arrive with: none, or a value of up
\* to MaxHeaderLen elements.
HeaderChars == {Sp, Word, NonAscii, Jwt(1, FALSE)} \cup {Jwt(u, TRUE) : u \in Uuids}
HeaderValues == UNION {[1..n -> HeaderChars] : n \in 0..MaxHeaderLen}
Metadatas == {None} \cup {Some(v) : v \in HeaderValues}

\* The storage service behind its interceptor, one request at a time, for
\* one namespace and one key.
NextAuth ==
    \/ \E metadata \in Metadatas : Receive(metadata)
    \/ \E value \in RpcValues : ServePut(UuidText(1), <<97>>, value, None, "ok")
    \/ ServeGet(UuidText(1), <<97>>, "ok")
    \/ Reply
    \/ \E tenant \in Uuids :
          \E o \in Orders({ToPersistedID(k) : k \in DOMAIN lookup \cup {<<tenant, 1>>}}) :
              wire.stage = "none" /\ AddPartition(tenant, 1, o, "ok")

SpecAuth == Init /\ [][NextAuth]_vars

\* The Authorization headers HTTP clients send: none, or two elements with a
\* space between them.
GatewayHeaders ==
    {None} \cup {Some(<<x, Sp, y>>) : x \in {Word, Sp, NonAscii, Jwt(1, TRUE)},
                                      y \in HeaderChars \ {Sp, NonAscii}}

\* The names of namespaces: the text of a uuid, and a name that is none.
NamespaceNames == {UuidText(1), <<-1>>}

\* The gateway's database: every tenant; the first may have a namespace
\* named by the text of a uuid, the last one of another name.
Gateways ==
    {[tenants |-> {TenantRow(u) : u \in Uuids}, namespaces |-> rows, http |-> NoHttp] :
        rows \in SUBSET {NamespaceRow(UuidText(1), TenantRow(1).id),
                         NamespaceRow(<<-1>>, TenantRow(NumUuids).id)}}

\* The gateway started over its database, the storage node over no catalog.
InitGateway ==
    /\ db = [id \in PartIds |-> EmptyDb]
    /\ call = [t \in Threads |-> Idle]
    /\ lastPut = [id \in PartIds |-> [k \in Keys |-> NoWrite]]
    /\ resp = NoResp
    /\ crashes = 0
    /\ lookup = EmptyMap
    /\ hasher = Crc64HasherNew
    /\ disk = NoFile
    /\ node = "up"
    /\ th = [t \in Threads |-> ThIdle]
    /\ nextId = 1
    /\ published = {}
    /\ dirty = {}
    /\ pinned = NoPin
    /\ wire = NoWire
    /\ gw \in Gateways

\* Who a request with this header is, for the storage node.
TenantOfHeader(header) ==
    LET auth_data == AuthHeaderParse(header)
    IN  IF auth_data.ok /\ JwtValidatorParse(auth_data.bearer).ok
        THEN IdentityTenantId(JwtValidatorParse(auth_data.bearer).identity)
        ELSE 0

\* The gateway in front of the storage service, one request at a time, for
\* one key; partitions are added to namespace 1 between requests.
NextGateway ==
    \/ \E header \in GatewayHeaders, namespace \in NamespaceNames, value \in RpcValues :
          \E client_crc \in CrcChoices(<<97>>, value) :
              GatewayPut(header, namespace, <<97>>, value, client_crc, "ok")
    \/ \E header \in GatewayHeaders, namespace \in NamespaceNames :
          GatewayGet(header, namespace, <<97>>, "ok")
    \/ \E header \in GatewayHeaders, namespace \in NamespaceNames :
          \E ios \in [1..PartitionCount(TenantOfHeader(header), namespace) -> {"ok"}],
             completed \in Orders(1..PartitionCount(TenantOfHeader(header), namespace)) :
              GatewayListKeys(header, namespace, ios, completed)
    \/ \E name \in {TenantRow(u).name : u \in Uuids} \cup {<<100>>} : GatewayGenToken(name)
    \/ GatewayReply
    \/ \E tenant \in Uuids :
          \E o \in Orders({ToPersistedID(k) : k \in DOMAIN lookup \cup {<<tenant, 1>>}}) :
              gw.http.op = "none" /\ AddPartition(tenant, 1, o, "ok")

SpecGateway == InitGateway /\ [][NextGateway]_vars

\* A lookup whose pair (1, 1) has a sequence of 1..MaxJumpLen partitions.
InitJump ==
    /\ db = [id \in PartIds |-> EmptyDb]
    /\ call = [t \in Threads |-> Idle]
    /\ lastPut = [id \in PartIds |-> [k \in Keys |-> NoWrite]]
    /\ resp = NoResp
    /\ crashes = 0
    /\ \E n \in 1..MaxJumpLen :
          /\ lookup = MapInsert(EmptyMap, <<1, 1>>, [i \in 1..n |-> Partition(i, 1, 1)])
          /\ nextId = n + 1
    /\ hasher = Crc64HasherNew
    /\ disk = NoFile
    /\ node = "up"
    /\ th = [t \in Threads |-> ThIdle]
    /\ published = {}
    /\ dirty = {}
    /\ pinned = NoPin
    /\ wire = NoWire
    /\ gw = NoGateway

\* The keys k1, k2, ... routed one after another.
NextJump == RouteAcrossAppend(1, 1)

SpecJump == InitJump /\ [][NextJump]_vars

\* The lookup alone: routing, add_partition one call at a time, restarts.
NextRouting ==
    \/ \E tenant \in Uuids, ns \in Uuids, key \in Keys, pin \in BOOLEAN :
          Route(tenant, ns, key, pin)
    \/ \E tenant \in Uuids, ns \in Uuids, io \in {"ok", "open_err", "write_err"} :
          \E o \in Orders({ToPersistedID(k) : k \in DOMAIN lookup \cup {<<tenant, ns>>}}) :
              AddPartition(tenant, ns, o, io)
    \/ \E io \in IoOutcomes : Restart(io)

SpecRouting == InitAnyCatalog /\ [][NextRouting]_vars

\* The lookup under concurrent callers of add_partition.
NextLookup ==
    \/ \E t \in Threads, tenant \in Uuids, ns \in Uuids : AddRead(t, tenant, ns)
    \/ \E t \in Threads : AddPublish(t)
    \/ \E t \in Threads, io \in IoOutcomes : SaveOpen(t, io)
    \/ \E t \in Threads : \E o \in Orders(DOMAIN ToPersistedState(lookup)) : SaveSnapshot(t, o)
    \/ \E t \in Threads, io \in IoOutcomes : SaveWrite(t, io)
    \/ \E t \in Threads : SaveDone(t)
    \/ \E io \in IoOutcomes : Restart(io)

SpecLookup == Init /\ [][NextLookup]_vars

\* Readers of the lookup beside concurrent callers of add_partition.
NextSnapshot ==
    \/ \E t \in Threads, tenant \in Uuids, ns \in Uuids : AddRead(t, tenant, ns)
    \/ \E t \in Threads : AddPublish(t)
    \/ \E tenant \in Uuids, ns \in Uuids : ReadPartitions(tenant, ns)

SpecSnapshot == Init /\ [][NextSnapshot]_vars

(***************************************************************************)
(* Properties of the partition engine (SpecPartition).                     *)
(***************************************************************************)
\* C1: atomicity invariant of a partition.  In every reachable state, a
\* crash inside a put or a delete included, each key has a value in the
\* default column family if and only if it has a record in the metadata
\* column family, and exists(k) answers true exactly when the metadata row
\* of k exists.
AtomicityInvariant ==
    /\ \A id \in PartIds, k \in Keys :
          (k \in DOMAIN db[id].default) <=> (k \in DOMAIN db[id].metadata)
    /\ (resp.op = "exists" /\ resp.res.kind = "Ok") => (resp.res.found = resp.meta)

\* A crash cut a put and a delete off while one key was stored and another
\* had been deleted.
AtomicityWitness ==
    /\ resp.op = "crash"
    /\ resp.cut = {"put", "delete"}
    /\ \E k1, k2 \in Keys :
          /\ k1 \in DOMAIN db[1].default
          /\ lastPut[1][k2].kind = "delete"
          /\ k2 \notin DOMAIN db[1].metadata

\* C2: round trip at the partition.  A get of a key whose latest completed
\* write is put(k, {crc, version, value}) returns exactly that value, crc and
\* version unless the engine fails the read; and once a put has succeeded a
\* get returns its value, crc and version, whatever the key held before.
PartitionRoundTrip ==
    /\ (resp.op = "get" /\ resp.last.kind = "put" /\ resp.res.kind # "RocksDBError")
          => resp.res = [kind |-> "Ok", crc |-> resp.last.pv.crc,
                         version |-> resp.last.pv.version, value |-> resp.last.pv.value]
    /\ (resp.op = "put" /\ resp.res.kind = "Ok")
          => PartitionGet(db[1], resp.key, "ok")
                = [kind |-> "Ok", crc |-> resp.pv.crc, version |-> resp.pv.version,
                   value |-> resp.pv.value]

\* A put replaced the record of an earlier put, every field different, and
\* a get returns the new record.
PartitionRoundTripWitness ==
    /\ resp.op = "put"
    /\ resp.res.kind = "Ok"
    /\ resp.before.kind = "put"
    /\ resp.before.pv.value # resp.pv.value
    /\ resp.before.pv.crc # resp.pv.crc
    /\ resp.before.pv.version # resp.pv.version
    /\ resp.pv.crc # resp.pv.version
    /\ PartitionGet(db[1], resp.key, "ok").kind = "Ok"
    /\ PartitionGet(db[1], resp.key, "ok").value = resp.pv.value

(***************************************************************************)
(* Properties of the storage service (Spec).                               *)
(***************************************************************************)
\* C3: CRC contract.  Every record stored through the RPC put path has a
\* metadata crc equal to the CRC-32 of its key followed by its value, and an
\* accepted put answers with that same crc.
CrcContract ==
    /\ \A id \in PartIds : \A k \in DOMAIN db[id].metadata :
          /\ k \in DOMAIN db[id].default
          /\ DecodeMetadata(db[id].metadata[k]).crc = RightCrc[k][db[id].default[k]]
    /\ (resp.op = "rpc_put" /\ resp.status.code = "Ok")
          => /\ resp.out.kind = "Ok"
             /\ resp.out.crc = RightCrc[resp.req.key][resp.req.value]
             /\ resp.req.key \in DOMAIN db[resp.part].metadata
             /\ DecodeMetadata(db[resp.part].metadata[resp.req.key]).crc = resp.out.crc

\* A put that carried the right crc was accepted and its record is stored.
CrcContractWitness ==
    /\ resp.op = "rpc_put"
    /\ resp.status.code = "Ok"
    /\ resp.req.crc.some
    /\ resp.part \in PartIds
    /\ resp.req.key \in DOMAIN db[resp.part].metadata

\* C4: crc mismatch.  An RPC put that reaches the crc check with a client
\* crc different from the CRC-32 of key followed by value is answered
\* InvalidArgument("crc mismatch"), touches no partition, and leaves every
\* partition's column families, the lookup and the catalog file as they were.
CrcMismatchRejected ==
    [][(/\ resp'.op = "rpc_put"
        /\ resp'.calc.some
        /\ resp'.req.crc.some
        /\ resp'.req.crc.val # RightCrc[resp'.req.key][resp'.req.value])
       => (/\ resp'.status = Status("InvalidArgument", "crc mismatch")
           /\ resp'.part = 0
           /\ db' = db
           /\ lookup' = lookup
           /\ disk' = disk)]_vars

\* A put with a wrong crc was rejected while a partition it would have been
\* routed to held a record.
CrcMismatchWitness ==
    /\ resp.op = "rpc_put"
    /\ resp.status = Status("InvalidArgument", "crc mismatch")
    /\ resp.req.crc.some
    /\ resp.req.crc.val # RightCrc[resp.req.key][resp.req.value]
    /\ ParseUuid(resp.req.ns).ok
    /\ <<resp.req.tenant, ParseUuid(resp.req.ns).uuid>> \in DOMAIN lookup
    /\ \E id \in PartIds : db[id].metadata # EmptyCf

\* The request of the last RPC named a pair with no partitions registered.
UnknownPartition ==
    /\ resp.op \in {"rpc_put", "rpc_get"}
    /\ ParseUuid(resp.req.ns).ok
    /\ <<resp.req.tenant, ParseUuid(resp.req.ns).uuid>> \notin DOMAIN lookup

\* C5 as stated: an RPC put or get for a pair with no partitions registered
\* returns NotFound("partition not found") and touches no partition.
UnknownPartitionNotFound ==
    UnknownPartition
        => /\ resp.status = Status("NotFound", "partition not found")
           /\ resp.part = 0

\* C5, amended: an RPC get, and an RPC put whose crc is absent or equal to
\* the CRC-32 of key followed by value, for a pair with no partitions
\* registered returns NotFound("partition not found"), touches no partition
\* and leaves every partition as it was; a put with another crc is answered
\* InvalidArgument("crc mismatch") instead, no partition touched either.
UnknownPartitionAmended ==
    [][UnknownPartition'
       => IF resp'.op = "rpc_put" /\ resp'.req.crc.some
             /\ resp'.req.crc.val # RightCrc[resp'.req.key][resp'.req.value]
          THEN /\ resp'.status = Status("InvalidArgument", "crc mismatch")
               /\ resp'.part = 0
               /\ db' = db
          ELSE /\ resp'.status = Status("NotFound", "partition not found")
               /\ resp'.part = 0
               /\ db' = db]_vars

\* A put with the right crc was answered NotFound("partition not found")
\* while the tenant had a partition, holding a record, under another
\* namespace.
UnknownPartitionWitness ==
    /\ UnknownPartition
    /\ resp.op = "rpc_put"
    /\ resp.req.crc.some
    /\ resp.status = Status("NotFound", "partition not found")
    /\ \E k \in DOMAIN lookup :
          /\ k[1] = resp.req.tenant
          /\ \E i \in 1..Len(lookup[k]) : db[lookup[k][i].id].metadata # EmptyCf

(***************************************************************************)
(* Properties of routing (SpecRouting).                                    *)
(***************************************************************************)
\* C6: routing determinism.  While the sequence registered for a pair is
\* the one an earlier get_partition_for_key(tenant, namespace, k) saw, the
\* call returns what it returned then (the same index, the same partition),
\* whatever keys were routed in between and across a restart that reloads
\* the catalog.
RoutingDeterminism ==
    (/\ pinned.set
     /\ node = "up"
     /\ Partitions(lookup, pinned.route.tenant_id, pinned.route.namespace_id)
           = (IF pinned.route.some
              THEN [some |-> TRUE, partitions |-> pinned.route.seq]
              ELSE [some |-> FALSE]))
    => GetPartitionForKey(lookup, hasher, pinned.route.tenant_id,
                          pinned.route.namespace_id, pinned.route.key) = pinned.route.res

\* A key was routed to the second of two partitions, the node restarted and
\* reloaded the same sequence, and another key has been routed since.
RoutingDeterminismWitness ==
    /\ pinned.set
    /\ pinned.at = 0
    /\ crashes = 1
    /\ node = "up"
    /\ pinned.route.res.kind = "Some"
    /\ pinned.route.res.index = 1
    /\ Len(pinned.route.seq) = 2
    /\ Partitions(lookup, pinned.route.tenant_id, pinned.route.namespace_id)
          = [some |-> TRUE, partitions |-> pinned.route.seq]
    /\ resp.op = "route"
    /\ resp.key # pinned.route.key

\* C7 as stated: get_partition_for_key returns None exactly when the pair
\* has no partitions, and otherwise the partition at an index i with
\* 0 <= i < N; it never panics, a lookup loaded from any well-formed
\* catalog file included.
GetPartitionForKeyTotal ==
    node = "up" =>
        \A tenant_id \in Uuids, namespace_id \in Uuids, key \in Keys :
            LET ps == Partitions(lookup, tenant_id, namespace_id)
                n == IF ps.some THEN Len(ps.partitions) ELSE 0
                r == GetPartitionForKey(lookup, hasher, tenant_id, namespace_id, key)
            IN  IF n = 0 THEN r.kind = "None"
                ELSE /\ r.kind = "Some"
                     /\ r.index \in 0..(n - 1)
                     /\ r.partition = ps.partitions[r.index + 1]

(***************************************************************************)
(* Properties of the catalog (SpecLookup).                                 *)
(***************************************************************************)
\* C8: catalog reload.  When the process restarts after add_partition calls
\* that all succeeded and did not overlap, and every engine listed opens,
\* load succeeds and the lookup it yields has, for every pair, the same
\* partition ids in the same order as before the restart, so every key is
\* routed to the same index.
CatalogReload ==
    (resp.op = "restart" /\ resp.clean /\ resp.io = "ok")
        => /\ resp.ok
           /\ DOMAIN resp.after = DOMAIN resp.before
           /\ \A k \in DOMAIN resp.before :
                 /\ Ids(resp.after[k]) = Ids(resp.before[k])
                 /\ \A key \in Keys :
                       GetPartitionForKey(resp.after, Crc64HasherNew, k[1], k[2], key)
                          = GetPartitionForKey(resp.before, Crc64HasherNew, k[1], k[2], key)

\* The node restarted with two partitions registered, one of them under a
\* pair whose tenant and namespace differ.
CatalogReloadWitness ==
    /\ resp.op = "restart"
    /\ resp.clean
    /\ resp.io = "ok"
    /\ resp.ok
    /\ \E k \in DOMAIN resp.before : k[1] # k[2]
    /\ \E k \in DOMAIN resp.before : Len(resp.before[k]) = 2 \/ Cardinality(DOMAIN resp.before) = 2

\* C9 as stated: once every add_partition call has returned, the sequence
\* of each pair holds every partition an add_partition_internal published
\* for it, also when two calls for the same pair ran concurrently.
NoLostAppend ==
    (crashes = 0 /\ \A t \in Threads : th[t].pc = "idle")
        => \A p \in published :
              /\ <<p.tenant_id, p.namespace_id>> \in DOMAIN lookup
              /\ p.id \in {Ids(lookup[<<p.tenant_id, p.namespace_id>>])[i] :
                              i \in 1..Len(lookup[<<p.tenant_id, p.namespace_id>>])}

\* C10 as stated: no save opens and truncates partitions.json while another
\* save is between its truncate and the end of its write, and once all
\* concurrent add_partition calls have returned successfully the file is a
\* well-formed catalog equal to the in-memory map.
CatalogWritesSerialized ==
    /\ \A t1, t2 \in Threads :
          (th[t1].pc \in {"opened", "writing"} /\ th[t2].pc \in {"opened", "writing"})
             => t1 = t2
    /\ (crashes = 0 /\ "failed" \notin dirty /\ published # {}
        /\ \A t \in Threads : th[t].pc = "idle")
          => /\ disk.exists
             /\ ParseState(disk.data).ok
             /\ ToPartitionLookup(ParseState(disk.data).state) = lookup

\* C11 as stated: add_partition rewrites partitions.json atomically.  At
\* every instant, a crash inside the call included, the file (once it
\* exists) is a complete catalog, and a load at a restart whose engines all
\* open never fails.
CatalogRewriteAtomic ==
    /\ disk.exists => ParseState(disk.data).ok
    /\ (resp.op = "restart" /\ resp.io = "ok") => resp.ok

(***************************************************************************)
(* Properties of the reads of a partition (SpecEngine).                    *)
(***************************************************************************)
\* C12 as stated: when exactly one of the value and the metadata record of
\* a key is present, get fails, and with an error different from the one it
\* returns when both are absent.
GetDistinguishesFailures ==
    (/\ resp.op = "get"
     /\ resp.res.kind # "RocksDBError"
     /\ (resp.key \in DOMAIN db[1].default) # (resp.key \in DOMAIN db[1].metadata))
    => /\ resp.res.kind # "Ok"
       /\ resp.res # PartitionGet(EmptyDb, resp.key, "ok")

\* a before b in lexicographic byte order, said directly: they differ first
\* at a place where a has ended or has the smaller byte.
LexLess(a, b) ==
    \E i \in 1..Len(b) :
        /\ \A j \in 1..(i - 1) : j <= Len(a) /\ a[j] = b[j]
        /\ i > Len(a) \/ a[i] < b[i]

\* C17: list_keys({limit, start_at}) returns the keys that have a metadata
\* row and are not before start_at (all of them when start_at is absent),
\* in ascending lexicographic byte order, cut to the first limit of them
\* (50 when limit is absent), each with the crc and version stored for it;
\* with rows a, b, c, d, limit 2 and start_at b the result is [b, c].
ListKeysOrdered ==
    (resp.op = "list_keys" /\ resp.res.kind = "Ok")
    => LET keys == resp.res.keys
           eligible == {k \in DOMAIN db[1].metadata :
                           resp.opts.start_at.some => ~LexLess(k, resp.opts.start_at.val)}
           limit == IF resp.opts.limit.some THEN resp.opts.limit.val ELSE 50
       IN  /\ Len(keys) = IF Cardinality(eligible) < limit THEN Cardinality(eligible) ELSE limit
           /\ \A i \in 1..Len(keys) :
                 /\ keys[i].key \in eligible
                 /\ keys[i].crc = StoredPv(keys[i].key).crc
                 /\ keys[i].version = StoredPv(keys[i].key).version
                 /\ \A j \in (i + 1)..Len(keys) : LexLess(keys[i].key, keys[j].key)
                 /\ \A k \in eligible :
                       LexLess(k, keys[i].key) => \E j \in 1..(i - 1) : keys[j].key = k
           /\ (/\ DOMAIN db[1].metadata = {<<97>>, <<98>>, <<99>>, <<100>>}
               /\ resp.opts = [limit |-> Some(2), start_at |-> Some(<<98>>)])
              => [i \in 1..Len(keys) |-> keys[i].key] = <<(<<98>>), (<<99>>)>>

\* The rows are a, b, c, d and list_keys(limit 2, start_at b) has answered
\* with two keys.
ListKeysOrderedWitness ==
    /\ resp.op = "list_keys"
    /\ resp.res.kind = "Ok"
    /\ DOMAIN db[1].metadata = {<<97>>, <<98>>, <<99>>, <<100>>}
    /\ resp.opts = [limit |-> Some(2), start_at |-> Some(<<98>>)]
    /\ Len(resp.res.keys) = 2

(***************************************************************************)
(* Properties of the status codes of the storage service (Spec).           *)
(***************************************************************************)
\* C13 as stated: a failure of the engine under a routed put or get is
\* answered Internal; RPC get never answers an engine failure NotFound.
RpcStatusMapping ==
    (/\ resp.op \in {"rpc_put", "rpc_get"}
     /\ resp.part # 0
     /\ resp.out.kind = "RocksDBError")
    => /\ resp.status.code = "Internal"
       /\ resp.status.code # "NotFound"

(***************************************************************************)
(* Properties of the interceptor (SpecAuth).                               *)
(***************************************************************************)
\* The places where a token of the value v begins, and the place of the
\* second token, counted directly on the value.
TokenStarts(v) == {i \in 1..Len(v) : v[i] # Sp /\ (i = 1 \/ v[i - 1] = Sp)}
SecondTokenAt(v) == {p \in TokenStarts(v) : Cardinality({i \in TokenStarts(v) : i < p}) = 1}
TokenFrom(v, p) ==
    LET stops == {i \in p..Len(v) : v[i] = Sp}
    IN  SubSeq(v, p, IF stops = {} THEN Len(v)
                     ELSE (CHOOSE i \in stops : \A j \in stops : i <= j) - 1)

\* The tenants a request's Authorization entry vouches for: the sub claim
\* of the JWT that is the second token of a readable value and carries the
\* issuer's signature.
VouchedTenants(metadata) ==
    IF ~metadata.some \/ (\E i \in 1..Len(metadata.val) : metadata.val[i] = NonAscii)
    THEN {}
    ELSE {u \in Uuids : \E p \in SecondTokenAt(metadata.val) :
                            TokenFrom(metadata.val, p) = <<Jwt(u, TRUE)>>}

\* C14: a request is handed to Storage::put or Storage::get only when its
\* Authorization entry carries a validated token, the handler then finds
\* the Identity and acts for the tenant that is the token's sub claim; any
\* other request is answered by the interceptor and leaves every partition,
\* and the lookup's hasher, as they were.
AuthenticationGate ==
    [][wire'.stage = "served" /\ wire.stage = "received"
       => IF VouchedTenants(wire.metadata) # {}
          THEN /\ resp'.op \in {"rpc_put", "rpc_get"}
               /\ resp'.status.code # "panic"
               /\ VouchedTenants(wire.metadata) = {resp'.req.tenant}
          ELSE /\ resp'.op = "intercepted"
               /\ UNCHANGED <<db, lastPut, hasher, lookup>>]_vars

\* A put with the header "Bearer <token of tenant 2>" has been handed to
\* Storage::put, which acted for tenant 2 and wrote the key to a partition
\* of that tenant.
AuthenticationGateWitness ==
    /\ wire.stage = "served"
    /\ wire.metadata = Some(<<Word, Sp, Jwt(2, TRUE)>>)
    /\ resp.op = "rpc_put"
    /\ resp.req.tenant = 2
    /\ resp.status.code = "Ok"
    /\ resp.part # 0
    /\ <<97>> \in DOMAIN db[resp.part].default

\* C15: the interceptor rejects a request with Unauthenticated when it has
\* no Authorization entry or the entry has fewer than two tokens (a value
\* that is not readable as a string has none), and with NotFound when the
\* second token is there and is not a JWT with the issuer's signature; what
\* the validator is given is the second token and nothing else.
InterceptorFailureCodes ==
    wire.stage = "served" =>
        LET second == IF wire.metadata.some /\ ToStr(wire.metadata.val).ok
                      THEN SecondTokenAt(wire.metadata.val) ELSE {}
        IN  /\ second = {}
               => /\ resp.op = "intercepted"
                  /\ resp.status = Status("Unauthenticated", "auth header missing")
                  /\ resp.parsed = None
            /\ (second # {} /\ VouchedTenants(wire.metadata) = {})
               => /\ resp.op = "intercepted"
                  /\ resp.status.code = "NotFound"
            /\ (resp.op = "intercepted" /\ resp.parsed.some)
               => \E p \in second : resp.parsed.val = TokenFrom(wire.metadata.val, p)

\* A get with the header "<valid token> <token with a foreign signature>"
\* has been rejected NotFound, and the validator saw the second token.
InterceptorFailureCodesWitness ==
    /\ wire.stage = "served"
    /\ wire.metadata = Some(<<Jwt(1, TRUE), Sp, Jwt(1, FALSE)>>)
    /\ resp.op = "intercepted"
    /\ resp.method = "rpc_get"
    /\ resp.status.code = "NotFound"
    /\ resp.parsed = Some(<<Jwt(1, FALSE)>>)

(***************************************************************************)
(* Properties of gets beside writes of the same key (SpecReads).           *)
(***************************************************************************)
\* C16: a get that runs while puts and deletes of its key complete returns
\* the value, crc and version of one single put, the latest one completed
\* when the get pinned its snapshot (so a put completed before the get
\* began, or a later one), and reports the key missing only when the latest
\* write at that moment was a delete or there was none; it never pairs the
\* value of one put with the metadata of another and never fails on a row
\* missing on one side only.
GetLinearizable ==
    (resp.op = "multi_get" /\ resp.res.kind # "RocksDBError")
    => /\ resp.seen.kind = "put"
          => resp.res = [kind |-> "Ok", crc |-> resp.seen.pv.crc,
                         version |-> resp.seen.pv.version, value |-> resp.seen.pv.value]
       /\ resp.seen.kind # "put"
          => resp.res = [kind |-> "General", msg |-> "could not find value"]
       /\ resp.res.kind = "Ok"
          => \E pv \in PutValues :
                /\ resp.res.value = pv.value
                /\ resp.res.crc = pv.crc
                /\ resp.res.version = pv.version

\* A get returned the record of one put although, before it read, another
\* put of the same key with another value, crc and version had completed.
GetLinearizableWitness ==
    /\ resp.op = "multi_get"
    /\ resp.res.kind = "Ok"
    /\ resp.seen.kind = "put"
    /\ resp.last.kind = "put"
    /\ resp.last.pv.value # resp.seen.pv.value
    /\ resp.last.pv.crc # resp.seen.pv.crc
    /\ resp.last.pv.version # resp.seen.pv.version
    /\ resp.res.value = resp.seen.pv.value

(***************************************************************************)
(* Properties of the list_keys method of the storage service (SpecList).   *)
(***************************************************************************)
\* C18 as stated: RPC list_keys lists every partition of the pair with the
\* limit and the start_key of the request.
ListKeysHonoursOptions ==
    (resp.op = "rpc_list_keys" /\ resp.status.code = "Ok")
    => \A i \in 1..Len(resp.parts) :
          resp.listed[i] = PartitionListKeys(db[resp.parts[i]],
                                             ListOptionsOfRequest(resp.req.limit,
                                                                  resp.req.start_key),
                                             "ok")

\* How many keys the listings before the i-th hold together.
RECURSIVE KeysBefore(_, _)
KeysBefore(listed, i) ==
    IF i <= 1 THEN 0 ELSE KeysBefore(listed, i - 1) + Len(listed[i - 1].keys)

\* C19: RPC list_keys answers with the listings of the pair's partitions in
\* the order of the partition sequence, the keys of partitions[0] first,
\* then those of partitions[1], whatever order the listings completed in;
\* when the listing of any partition fails the call fails with Internal
\* and carries no keys.
ListKeysPartitionOrder ==
    (resp.op = "rpc_list_keys" /\ resp.parts # <<>>)
    => /\ resp.parts = Ids(lookup[<<resp.req.tenant, ParseUuid(resp.req.ns).uuid>>])
       /\ IF \A i \in 1..Len(resp.listed) : resp.listed[i].kind = "Ok"
          THEN /\ resp.status.code = "Ok"
               /\ Len(resp.keys) = KeysBefore(resp.listed, Len(resp.listed) + 1)
               /\ \A i \in 1..Len(resp.listed) :
                     \A j \in 1..Len(resp.listed[i].keys) :
                        resp.keys[KeysBefore(resp.listed, i) + j] = resp.listed[i].keys[j]
          ELSE /\ resp.status = Status("Internal", "internal error")
               /\ resp.keys = <<>>

\* The pair has two partitions holding different keys, the listing of the
\* second completed first, and the response has the keys of the first
\* partition before those of the second.
ListKeysPartitionOrderWitness ==
    /\ resp.op = "rpc_list_keys"
    /\ resp.status.code = "Ok"
    /\ Len(resp.parts) = 2
    /\ resp.completed = <<2, 1>>
    /\ resp.listed[1].keys # <<>>
    /\ resp.listed[2].keys # <<>>
    /\ resp.listed[1].keys # resp.listed[2].keys
    /\ resp.keys = resp.listed[1].keys \o resp.listed[2].keys

\* C20 as stated: put, get and list_keys answer a namespace_id that is not
\* a UUID with InvalidArgument, without panicking.
InvalidNamespaceRejected ==
    (/\ resp.op \in {"rpc_put", "rpc_get", "rpc_list_keys"}
     /\ ~ParseUuid(resp.req.ns).ok)
    => resp.status.code = "InvalidArgument"

(***************************************************************************)
(* Properties of a put followed by gets in the storage service (Spec).     *)
(***************************************************************************)
\* The record an RPC get answers with when it finds pv.
Found(pv) == [kind |-> "Ok", crc |-> pv.crc, version |-> pv.version, value |-> pv.value]

\* C23: read-your-writes at the service.  Sequences only grow at their end,
\* so the latest put of k routed to the last partition of the sequence of
\* (T, N) is a put after which that sequence has not changed and which no
\* later put of k by T on N has replaced: a get of k by T on N is routed to
\* that partition and finds the put's value, version 1 and the CRC-32 of
\* key and value.  A get that is served answers from a partition of the
\* requester's own (tenant, namespace) and of no other pair, with the record
\* of the latest put to it unless the engine fails the read.
ReadYourWrites ==
    /\ \A T \in Uuids, N \in Uuids, k \in Keys :
          (/\ <<T, N>> \in DOMAIN lookup
           /\ lookup[<<T, N>>] # <<>>
           /\ lastPut[lookup[<<T, N>>][Len(lookup[<<T, N>>])].id][k].kind = "put")
          => LET p == lookup[<<T, N>>][Len(lookup[<<T, N>>])].id
                 pv == lastPut[p][k].pv
                 routed == GetPartitionForKey(lookup, hasher, T, N, k)
             IN  /\ routed.kind = "Some"
                 /\ routed.partition.id = p
                 /\ PartitionGet(db[p], k, "ok") = Found(pv)
                 /\ pv.version = <<0, 1>>
                 /\ pv.crc = RightCrc[k][pv.value]
    /\ (resp.op = "rpc_get" /\ resp.part # 0)
          => LET last == lastPut[resp.part][resp.req.key]
                 mine == <<resp.req.tenant, ParseUuid(resp.req.ns).uuid>>
             IN  /\ \A pair \in DOMAIN lookup :
                       (\E i \in 1..Len(lookup[pair]) : lookup[pair][i].id = resp.part)
                       <=> pair = mine
                 /\ (last.kind = "put" /\ resp.out.kind # "RocksDBError")
                       => /\ resp.status.code = "Ok"
                          /\ resp.out = Found(last.pv)
                 /\ resp.out.kind = "Ok" => last.kind = "put"

\* A get by the tenant on the namespace whose sequence has two partitions
\* was routed to the last one and answered with the record put there.
ReadYourWritesWitness ==
    /\ resp.op = "rpc_get"
    /\ resp.status.code = "Ok"
    /\ resp.out.version = <<0, 1>>
    /\ resp.out.crc = RightCrc[resp.req.key][resp.out.value]
    /\ \E pair \in DOMAIN lookup :
          /\ pair = <<resp.req.tenant, ParseUuid(resp.req.ns).uuid>>
          /\ Len(lookup[pair]) = 2
          /\ resp.part = lookup[pair][2].id
          /\ lastPut[resp.part][resp.req.key].kind = "put"

(***************************************************************************)
(* Properties of add_partition when the catalog file cannot be written     *)
(* (SpecRouting).                                                          *)
(***************************************************************************)
\* The catalog file lists the partition.
OnDisk(partition) ==
    /\ disk.exists
    /\ ParseState(disk.data).ok
    /\ \E pid \in DOMAIN ParseState(disk.data).state :
          \E i \in 1..Len(ParseState(disk.data).state[pid]) :
             ParseState(disk.data).state[pid][i] = ToPersistedPartition(partition)

\* C24: when add_partition fails to write partitions.json it returns the
\* error with the new partition already at the end of its sequence in
\* memory and not taken back: partitions() hands out the grown sequence and
\* get_partition_for_key routes over it, while the file does not list the
\* partition.
AddPartitionNotRolledBack ==
    (resp.op = "add_partition" /\ resp.res = "Err")
    => LET T == resp.partition.tenant_id
           N == resp.partition.namespace_id
           ps == Partitions(lookup, T, N)
       IN  /\ ps.some
           /\ ps.partitions[Len(ps.partitions)] = resp.partition
           /\ \A key \in Keys :
                 LET r == GetPartitionForKey(lookup, hasher, T, N, key)
                 IN  /\ r.kind = "Some"
                     /\ r.partition = ps.partitions[r.index + 1]
                     /\ Len(ps.partitions) = 1 => r.partition = resp.partition
           /\ ~OnDisk(resp.partition)

\* add_partition failed to open the file: a key is routed to the new
\* partition, and the file still holds a well-formed catalog without it.
AddPartitionNotRolledBackWitness ==
    /\ resp.op = "add_partition"
    /\ resp.res = "Err"
    /\ disk.exists
    /\ ParseState(disk.data).ok
    /\ ~OnDisk(resp.partition)
    /\ \E key \in Keys :
          GetPartitionForKey(lookup, hasher, resp.partition.tenant_id,
                             resp.partition.namespace_id, key)
             = [kind |-> "Some", index |-> 0, partition |-> resp.partition]

(***************************************************************************)
(* Properties of the text of partitions.json (SpecLookup).                 *)
(***************************************************************************)
\* C25 as stated: every object key written to partitions.json reads
\* "<namespace_id>::<tenant_id>": the text before the separator is the
\* namespace_id, and the text after it the tenant_id, of every partition
\* record in the key's array.
CatalogKeyFormat ==
    disk.exists
    => \A i \in 1..Len(disk.data) :
          disk.data[i].tok = "entry"
          => /\ SplitOnce(disk.data[i].key).ok
             /\ \A j \in 1..Len(disk.data[i].value) :
                   /\ SplitOnce(disk.data[i].key).left
                         = UuidText(disk.data[i].value[j].namespace_id)
                   /\ SplitOnce(disk.data[i].key).right
                         = UuidText(disk.data[i].value[j].tenant_id)

(***************************************************************************)
(* Properties of the start of a node (SpecLookup).                         *)
(***************************************************************************)
\* The text is a whole catalog: the opening, entries each under a key of
\* two ids around the separator, and the closing.
WholeCatalog(data) ==
    /\ Len(data) >= 2
    /\ data[1] = OpenChunk
    /\ data[Len(data)] = CloseChunk
    /\ \A i \in 2..(Len(data) - 1) :
          /\ data[i].tok = "entry"
          /\ \E a \in Uuids, b \in Uuids : data[i].key = <<a, 0, b>>

\* C26: at a start, when partitions.json is there and is not a whole
\* catalog, or lists a partition whose engine does not open, load fails,
\* there is no lookup and the node does not serve; when the file is absent
\* load gives an empty lookup and the node serves.
StartupWithBadCatalog ==
    [][crashes' # crashes
       => /\ resp'.op = "restart"
          /\ ~disk'.exists
             => (resp'.ok /\ node' = "up" /\ lookup' = EmptyMap)
          /\ (disk'.exists /\ ~WholeCatalog(disk'.data))
             => (~resp'.ok /\ node' = "down")
          /\ (/\ disk'.exists
              /\ resp'.io # "ok"
              /\ \E i \in 1..Len(disk'.data) : disk'.data[i].value # <<>>)
             => (~resp'.ok /\ node' = "down" /\ lookup' = EmptyMap)]_vars

\* A node was started over a file cut off after its opening, and is down.
StartupWithBadCatalogWitness ==
    /\ resp.op = "restart"
    /\ ~resp.ok
    /\ resp.io = "ok"
    /\ node = "down"
    /\ disk = File(<<OpenChunk>>)

(***************************************************************************)
(* Properties of delete (SpecPartition).                                   *)
(***************************************************************************)
\* The rows of every key but k, in both column families.
RowsBut(d, k) ==
    [default |-> [x \in DOMAIN d.default \ {k} |-> d.default[x]],
     metadata |-> [x \in DOMAIN d.metadata \ {k} |-> d.metadata[x]]]

\* C27: a delete(k) that succeeds leaves k in neither column family:
\* exists(k) is false, get(k) fails with "could not find value" and
\* list_keys does not return k; every other key keeps its value and its
\* metadata; when k was absent the engine is unchanged; a delete that fails
\* changes nothing.
DeleteFrameEffect ==
    [][\A t \in Threads :
         (call[t].pc = "delete" /\ call'[t].pc = "idle" /\ crashes' = crashes)
         => LET k == call[t].key
                p == call[t].part
                listed == PartitionListKeys(db'[p], ListOptionsDefault, "ok")
            IN  /\ resp'.op = "delete" /\ resp'.key = k
                /\ resp'.res.kind = "Ok"
                   => /\ PartitionExists(db'[p], k, "ok") = [kind |-> "Ok", found |-> FALSE]
                      /\ PartitionGet(db'[p], k, "ok")
                            = [kind |-> "General", msg |-> "could not find value"]
                      /\ listed.kind = "Ok"
                      /\ \A i \in 1..Len(listed.keys) : listed.keys[i].key # k
                      /\ RowsBut(db'[p], k) = RowsBut(db[p], k)
                      /\ (k \notin DOMAIN db[p].default /\ k \notin DOMAIN db[p].metadata)
                         => db' = db
                /\ resp'.res.kind # "Ok" => db' = db
                /\ \A q \in PartIds \ {p} : db'[q] = db[q]]_vars

\* A delete of a stored key succeeded while another key stays stored.
DeleteFrameEffectWitness ==
    /\ resp.op = "delete"
    /\ resp.res.kind = "Ok"
    /\ resp.before = "put"
    /\ resp.key \notin DOMAIN db[1].default \cup DOMAIN db[1].metadata
    /\ \E k \in Keys \ {resp.key} :
          /\ lastPut[1][k].kind = "put"
          /\ PartitionGet(db[1], k, "ok").kind = "Ok"
          /\ PartitionGet(db[1], k, "ok").value = lastPut[1][k].pv.value

(***************************************************************************)
(* Properties of a put that carries no crc (Spec).                         *)
(***************************************************************************)
\* C28: an RPC put whose crc field is absent is never answered with a crc
\* mismatch: with a namespace id that parses it is refused only when its
\* (tenant, namespace) has no partition (or the engine's write fails), and
\* otherwise it is answered Ok with the CRC-32 of key followed by value and
\* its record is stored with that crc.
PutWithoutCrc ==
    (resp.op = "rpc_put" /\ ~resp.req.crc.some)
    => LET ns == ParseUuid(resp.req.ns)
           right == RightCrc[resp.req.key][resp.req.value]
       IN  /\ resp.status # Status("InvalidArgument", "crc mismatch")
           /\ resp.status.code = "InvalidArgument" => ~ns.ok
           /\ ns.ok
              => /\ resp.calc = Some(right)
                 /\ resp.status.code \in {"Ok", "NotFound", "Internal"}
                 /\ resp.status.code = "NotFound"
                    <=> ~Partitions(lookup, resp.req.tenant, ns.uuid).some
                 /\ resp.status.code = "Internal"
                    => (resp.part # 0 /\ resp.out.kind # "Ok")
           /\ resp.status.code = "Ok"
              => /\ resp.out = [kind |-> "Ok", crc |-> right, version |-> <<0, 1>>]
                 /\ PartitionGet(db[resp.part], resp.req.key, "ok")
                       = [kind |-> "Ok", crc |-> right, version |-> <<0, 1>>,
                          value |-> resp.req.value]

\* A put without a crc was answered Ok and its record is stored.
PutWithoutCrcWitness ==
    /\ resp.op = "rpc_put"
    /\ ~resp.req.crc.some
    /\ resp.status.code = "Ok"
    /\ resp.out.crc = RightCrc[resp.req.key][resp.req.value]
    /\ resp.req.key \in DOMAIN db[resp.part].default
    /\ db[resp.part].default[resp.req.key] = resp.req.value

(***************************************************************************)
(* Properties of the metadata header (SpecHeader).                         *)
(***************************************************************************)
\* The four bytes bs are the big-endian form of the u32 w.
IsBigEndian(bs, w) ==
    /\ Len(bs) = 4
    /\ \A i \in 1..4 : bs[i] \in 0..255
    /\ bs[1] * 256 + bs[2] = w[1]
    /\ bs[3] * 256 + bs[4] = w[2]

\* C29: the metadata row of a record put with crc c and version v is 8
\* bytes, the first four the big-endian c and the last four the big-endian
\* v, and get and list_keys both decode it to c and v.
HeaderEncoding ==
    \A k \in DOMAIN db[1].metadata :
       LET pv == lastPut[1][k].pv
           row == db[1].metadata[k]
           got == PartitionGet(db[1], k, "ok")
           listed == PartitionListKeys(db[1], ListOptionsDefault, "ok")
       IN  /\ lastPut[1][k].kind = "put"
           /\ row = MetadataAsBytes(pv)
           /\ Len(row) = 8
           /\ IsBigEndian(SubSeq(row, 1, 4), pv.crc)
           /\ IsBigEndian(SubSeq(row, 5, 8), pv.version)
           /\ got.kind = "Ok" /\ got.crc = pv.crc /\ got.version = pv.version
           /\ listed.kind = "Ok"
           /\ listed.keys = <<[key |-> k, crc |-> pv.crc, version |-> pv.version]>>
           /\ (resp.op = "get" /\ resp.res.kind = "Ok")
              => (resp.res.crc = pv.crc /\ resp.res.version = pv.version)
           /\ (resp.op = "list_keys" /\ resp.res.kind = "Ok")
              => resp.res.keys = <<[key |-> k, crc |-> pv.crc, version |-> pv.version]>>

\* list_keys returned a record put with crc 0xFFFFFFFF and version 0x00FF0100.
HeaderEncodingWitness ==
    /\ resp.op = "list_keys"
    /\ resp.res.kind = "Ok"
    /\ resp.res.keys = <<[key |-> <<97>>, crc |-> <<65535, 65535>>, version |-> <<255, 256>>]>>
    /\ db[1].metadata[<<97>>] = <<255, 255, 255, 255, 0, 255, 1, 0>>

(***************************************************************************)
(* Properties of the gateway in front of the storage service (SpecGateway). *)
(***************************************************************************)
\* C21: a put through the gateway whose body carries a crc sends a
\* PutRequest with that crc, and when that crc is not the CRC-32 of key
\* followed by value the put is refused: neither the storage node nor the
\* gateway answers with success, and no partition is written.
GatewayForwardsClientCrc ==
    (gw.http.op = "put" /\ gw.http.crc.some /\ gw.http.sent /\ resp.op = "rpc_put")
    => /\ resp.req.crc = gw.http.crc
       /\ gw.http.crc.val # RightCrc[resp.req.key][resp.req.value]
          => /\ resp.status.code # "Ok"
             /\ gw.http.status # 200
             /\ resp.part = 0

\* C22: a handler of the gateway has sent an RPC to the storage service only
\* after namespace_exists answered true, in that request, for the tenant of
\* the token and the namespace named.
NamespaceCheckedBeforeProxy ==
    gw.http.sent
    => /\ gw.http.exists = "true"
       /\ gw.http.tenant.some
       /\ NamespaceExists(gw, gw.http.tenant.val, gw.http.namespace)

\* C30: a token the gateway issues for a tenant carries that tenant's uuid as
\* its sub; the Authorization entry of an RPC the gateway sends carries, as
\* its second token, the second token of the header the gateway received,
\* unchanged; and the storage interceptor accepts it and the handler acts for
\* the tenant that is that token's sub, the tenant the gateway verified.
IdentityFlow ==
    /\ (gw.http.op = "gen_token" /\ gw.http.status = 200)
       => /\ \E t \in gw.tenants : t.name = gw.http.id /\ gw.http.tenant = Some(t.uuid)
          /\ gw.http.token = <<Jwt(gw.http.tenant.val, TRUE)>>
          /\ JwtValidatorParse(gw.http.token).ok
          /\ IdentityTenantId(JwtValidatorParse(gw.http.token).identity) = gw.http.tenant.val
    /\ gw.http.sent
       => LET received == gw.http.header.val
              bearer == TokenFrom(received, CHOOSE p \in SecondTokenAt(received) : TRUE)
          IN  /\ gw.http.header.some
              /\ SecondTokenAt(received) # {}
              /\ wire.stage = "served"
              /\ wire.metadata.some
              /\ SecondTokenAt(wire.metadata.val) # {}
              /\ \A p \in SecondTokenAt(wire.metadata.val) :
                    TokenFrom(wire.metadata.val, p) = bearer
              /\ bearer = <<Jwt(gw.http.tenant.val, TRUE)>>
              /\ resp.op \in {"rpc_put", "rpc_get", "rpc_list_keys"}
              /\ resp.req.tenant = gw.http.tenant.val

\* A put by tenant 1, its header a token, a space and the token, went
\* through the gateway with the entry "Bearer <token>" to the storage node,
\* which stored it for tenant 1.
IdentityFlowWitness ==
    /\ gw.http.op = "put"
    /\ gw.http.sent
    /\ gw.http.status = 200
    /\ gw.http.header = Some(<<Jwt(1, TRUE), Sp, Jwt(1, TRUE)>>)
    /\ gw.http.tenant = Some(1)
    /\ wire.metadata = Some(<<Word, Sp, Jwt(1, TRUE)>>)
    /\ resp.op = "rpc_put"
    /\ resp.req.tenant = 1
    /\ resp.status.code = "Ok"

(***************************************************************************)
(* Properties of routing across an append (SpecJump).                      *)
(***************************************************************************)
\* C31: once the keys k1..k1000 have been routed over a sequence of length
\* N and over that sequence with one partition appended, the keys whose
\* partition differs are at most 1.4 * 1000 / (N + 1): at most 350 of them
\* for a sequence of length 3.
BoundedMovement ==
    (pinned.set /\ pinned.walked = NumJumpKeys)
    => /\ 10 * pinned.moved * (resp.n + 1) <= 14 * NumJumpKeys
       /\ resp.n = 3 => 1000 * pinned.moved <= 350 * NumJumpKeys

\* The thousand keys were routed across the append of a 4th partition, and
\* some of them, fewer than 350, moved.
BoundedMovementWitness ==
    /\ pinned.set
    /\ pinned.walked = NumJumpKeys
    /\ resp.n = 3
    /\ Len(lookup[<<1, 1>>]) = 3
    /\ pinned.moved > 0
    /\ 1000 * pinned.moved <= 350 * NumJumpKeys

\* C35: when a sequence of length N grows by one appended partition, a key
\* routes to the partition it routed to before or to the appended one, at
\* index N; no key moves from one of the first N partitions to another.
JumpMonotone ==
    resp.op = "reroute"
    => /\ resp.before.kind = "Some"
       /\ resp.after.kind = "Some"
       /\ resp.before.index < resp.n
       /\ \/ resp.after = resp.before
          \/ resp.after = [kind |-> "Some", index |-> resp.n, partition |-> resp.added]

\* A key moved to the partition appended to a sequence of 3, after a key
\* that stayed where it was.
JumpMonotoneWitness ==
    /\ resp.op = "reroute"
    /\ resp.n = 3
    /\ resp.after.index = 3
    /\ resp.after.partition = resp.added
    /\ resp.before.index < 3
    /\ pinned.moved < pinned.walked

(***************************************************************************)
(* Properties of the version of a put (SpecPartition).                     *)
(***************************************************************************)
\* The u32 a is at most the u32 b.
U32AtMost(a, b) == a[1] < b[1] \/ (a[1] = b[1] /\ a[2] <= b[2])

\* C32: a put whose engine write succeeds succeeds whatever its version and
\* whatever the key holds, and stores the version it was given: after a put
\* with a version at most that of the record it replaces, the stored
\* version is the new one.
VersionStoredVerbatim ==
    /\ \A k \in Keys, pv \in PutValues :
          /\ PartitionPutResult(pv, "ok")
                = [kind |-> "Ok", crc |-> pv.crc, version |-> pv.version]
          /\ PartitionGet(PartitionPutDb(db[1], k, pv, "ok"), k, "ok")
                = [kind |-> "Ok", crc |-> pv.crc, version |-> pv.version, value |-> pv.value]
    /\ (resp.op = "put" /\ resp.res.kind = "Ok")
       => /\ resp.res.version = resp.pv.version
          /\ PartitionGet(db[1], resp.key, "ok").kind = "Ok"
          /\ PartitionGet(db[1], resp.key, "ok").version = resp.pv.version

\* A put with a smaller version replaced a record, and the key now has the
\* smaller version.
VersionStoredVerbatimWitness ==
    /\ resp.op = "put"
    /\ resp.res.kind = "Ok"
    /\ resp.before.kind = "put"
    /\ U32AtMost(resp.pv.version, resp.before.pv.version)
    /\ resp.pv.version # resp.before.pv.version
    /\ PartitionGet(db[1], resp.key, "ok").kind = "Ok"
    /\ PartitionGet(db[1], resp.key, "ok").version = resp.pv.version

(***************************************************************************)
(* Properties of the sequences of the lookup (SpecLookup, SpecRouting).    *)
(***************************************************************************)
\* C33 as stated: the insert of add_partition(p) leaves the sequence of p's
\* pair as it was with p appended (one element more, p last, every earlier
\* partition at its index), and leaves every other pair's sequence as it was.
AddPartitionAppendOnly ==
    [][published' \ published # {}
       => \E p \in published' \ published :
             LET id == <<p.tenant_id, p.namespace_id>>
                 old == IF id \in DOMAIN lookup THEN lookup[id] ELSE <<>>
             IN  /\ DOMAIN lookup' = DOMAIN lookup \cup {id}
                 /\ lookup'[id] = Append(old, p)
                 /\ \A k \in DOMAIN lookup \ {id} : lookup'[k] = lookup[k]]_vars

IsPrefix(a, b) == Len(a) <= Len(b) /\ \A i \in 1..Len(a) : b[i] = a[i]

\* C36 as stated: the sequence a reader was handed by partitions(t, n) is
\* left as it is by every insert of add_partition, and what a reader finds
\* under the pair from then on is that same sequence or that sequence with
\* the partitions added since at its end, each whole.
PublishedSnapshots ==
    [][/\ (pinned.set /\ lookup' # lookup) => pinned' = pinned
       /\ (pinned'.set /\ pinned'.held.some)
            => LET now == Partitions(lookup', pinned'.tenant_id, pinned'.namespace_id)
               IN  /\ now.some
                   /\ IsPrefix(pinned'.held.partitions, now.partitions)
                   /\ \A i \in 1..Len(now.partitions) :
                         now.partitions[i] \in published']_vars

(***************************************************************************)
(* Properties of add_partition and the stored records (Spec).              *)
(***************************************************************************)
\* C37: add_partition migrates and deletes nothing.  When add_partition has
\* returned, every record put before it is stored in the partition that
\* received it, with the value, crc and version it was put with, also when
\* its key is routed to the new partition from now on.
AddPartitionKeepsRecords ==
    resp.op = "add_partition"
    => \A id \in PartIds, k \in Keys :
          lastPut[id][k].kind = "put"
          => PartitionGet(db[id], k, "ok") = Found(lastPut[id][k].pv)

\* add_partition has returned with a second partition for a pair whose first
\* partition stores a record.
AddPartitionKeepsRecordsWitness ==
    /\ resp.op = "add_partition"
    /\ resp.partition.id = 2
    /\ \E k \in Keys : lastPut[1][k].kind = "put"
    /\ \E pair \in DOMAIN lookup : Ids(lookup[pair]) = <<1, 2>>

(***************************************************************************)
(* Properties of list_keys on a pair without partitions (SpecList).        *)
(***************************************************************************)
\* The request just answered named a namespace that parses and a pair that
\* has no entry in the lookup.
NoPartitionsFor(r) ==
    /\ ParseUuid(r.req.ns).ok
    /\ ~Partitions(lookup, r.req.tenant, ParseUuid(r.req.ns).uuid).some

FailedPutChangesNothing ==
    [][resp'.op = "rpc_put"
       => LET r == resp'
              ns == ParseUuid(r.req.ns)
              wrong == /\ r.req.crc.some
                       /\ r.req.crc.val # CalculatedCrc(r.req.key, r.req.value)
              unknown == ~Partitions(lookup, r.req.tenant, ns.uuid).some
          IN  /\ r.status.code # "Ok" => db' = db /\ lastPut' = lastPut /\ lookup' = lookup
              /\ ~ns.ok => r.status = Status("InvalidArgument", "invalid uuid")
              /\ (ns.ok /\ wrong) => r.status = Status("InvalidArgument", "crc mismatch")
              /\ (ns.ok /\ ~wrong /\ unknown)
                    => r.status = Status("NotFound", "partition not found")]_vars

\* A put with a wrong crc for a pair without partitions was answered
\* InvalidArgument("crc mismatch") while an engine holds a record.
FailedPutChangesNothingWitness ==
    /\ resp.op = "rpc_put"
    /\ ParseUuid(resp.req.ns).ok
    /\ resp.req.crc.some
    /\ resp.req.crc.val # CalculatedCrc(resp.req.key, resp.req.value)
    /\ ~Partitions(lookup, resp.req.tenant, ParseUuid(resp.req.ns).uuid).some
    /\ resp.status = Status("InvalidArgument", "crc mismatch")
    /\ \E id \in PartIds : db[id] # EmptyDb

====
